---------------------------- MODULE Spec2Model ----------------------------
(***************************************************************************)
(* Model of the document-to-risk-analysis pipeline of lucid-app:           *)
(*   - pages/api/analyze (two builds: src/pages/api/analyze.ts, and the    *)
(*     build with the MOCK_MODE guards in src/unnamed/part_002),           *)
(*   - app/api/analyze-text/route.ts.                                      *)
(* Texts are TLA+ strings handled character by character, so that trim,    *)
(* slice, includes, the regex redactor and JSON.parse are computed as the  *)
(* code computes them.                                                     *)
(***************************************************************************)
EXTENDS Integers, Sequences, FiniteSets, TLC

(***************************************************************************)
(* Bounds of the model.                                                    *)
(***************************************************************************)
MaxPages == 2

(***************************************************************************)
(* JavaScript string primitives.                                           *)
(***************************************************************************)
Min(a, b) == IF a < b THEN a ELSE b
Max(a, b) == IF a > b THEN a ELSE b

Q == "\""

Digits == {"0", "1", "2", "3", "4", "5", "6", "7", "8", "9"}
Lowers == {"a", "b", "c", "d", "e", "f", "g", "h", "i", "j", "k", "l", "m",
           "n", "o", "p", "q", "r", "s", "t", "u", "v", "w", "x", "y", "z"}
Uppers == {"A", "B", "C", "D", "E", "F", "G", "H", "I", "J", "K", "L", "M",
           "N", "O", "P", "Q", "R", "S", "T", "U", "V", "W", "X", "Y", "Z"}
WhiteSpace == {" ", "\n", "\t"}

\* s[i] with 0-based i, "" when out of range
CharAt(s, i) == IF i >= 0 /\ i < Len(s) THEN SubSeq(s, i + 1, i + 1) ELSE ""

\* String.prototype.slice(a, b): negative indices count from the end
SliceBetween(s, lo, hi) == IF hi > lo THEN SubSeq(s, lo + 1, hi) ELSE ""
Slice(s, a, b) ==
    SliceBetween(s, IF a < 0 THEN Max(Len(s) + a, 0) ELSE Min(a, Len(s)),
                    IF b < 0 THEN Max(Len(s) + b, 0) ELSE Min(b, Len(s)))

\* String.prototype.substring(a, b): negatives clamp to 0, arguments swap
Substring(s, a, b) ==
    SliceBetween(s, Min(Min(Max(a, 0), Len(s)), Min(Max(b, 0), Len(s))),
                    Max(Min(Max(a, 0), Len(s)), Min(Max(b, 0), Len(s))))

StartsWithAt(s, k, i) == i + Len(k) <= Len(s) /\ SubSeq(s, i + 1, i + Len(k)) = k
StartsWith(s, k) == StartsWithAt(s, k, 0)
EndsWith(s, k) == Len(k) <= Len(s) /\ SubSeq(s, Len(s) - Len(k) + 1, Len(s)) = k
Includes(s, k) == \E i \in 0..(Len(s) - Len(k)) : StartsWithAt(s, k, i)

\* the least / greatest element of a set of integers, d when it is empty
MinOr(S, d) == IF S = {} THEN d ELSE CHOOSE x \in S : \A y \in S : x <= y
MaxOr(S, d) == IF S = {} THEN d ELSE CHOOSE x \in S : \A y \in S : x >= y

\* index of the first / last occurrence of k (0-based), -1 when absent
IndexOf(s, k) == MinOr({i \in 0..(Len(s) - Len(k)) : StartsWithAt(s, k, i)}, -1)
LastIndexOf(s, k) == MaxOr({i \in 0..(Len(s) - Len(k)) : StartsWithAt(s, k, i)}, -1)

\* number of occurrences of the one-character string c
CountChar(s, c) == Cardinality({i \in 0..(Len(s) - 1) : CharAt(s, i) = c})

\* C12 mutant: the text is tested as it is, white space included
TrimNothing(s) == s

\* String.prototype.trim()
Trim(s) ==
    LET TrimBetween(lo, hi) == IF lo < 0 THEN "" ELSE SubSeq(s, lo + 1, hi + 1)
    IN  TrimBetween(MinOr({i \in 0..(Len(s) - 1) : CharAt(s, i) \notin WhiteSpace}, -1),
                    MaxOr({i \in 0..(Len(s) - 1) : CharAt(s, i) \notin WhiteSpace}, -1))

Range(f) == {f[i] : i \in DOMAIN f}

\* items.join(sep)
RECURSIVE Join(_, _)
Join(items, sep) ==
    IF Len(items) = 0 THEN ""
    ELSE IF Len(items) = 1 THEN items[1]
    ELSE items[1] \o sep \o Join(Tail(items), sep)

\* the backtick cannot be written in a TLA+ string: "~" stands for it, and
\* Fence for the three backticks of a markdown code fence
Fence == "~~~"

\* String.prototype.toLowerCase(), one upper-case letter at a time
RECURSIVE ToLowerCase(_)
ToLowerCase(s) ==
    LET LowerChar(c) ==
            CharAt("abcdefghijklmnopqrstuvwxyz",
                   IndexOf("ABCDEFGHIJKLMNOPQRSTUVWXYZ", c))
        LowerFrom(i) ==
            IF i < 0 THEN s
            ELSE Slice(s, 0, i) \o LowerChar(CharAt(s, i))
                 \o ToLowerCase(Slice(s, i + 1, Len(s)))
    IN  LowerFrom(MinOr({i \in 0..(Len(s) - 1) : CharAt(s, i) \in Uppers}, -1))

(***************************************************************************)
(* The regex fallback redactor (redactWithDLP when dlp is null, and        *)
(* redactPIIWithDLP in mock mode): three global replaces, in this order.   *)
(***************************************************************************)
\* \b at 0-based offset i: exactly one side is a word character
WordBoundary(s, i) ==
    LET IsWord(c) == c \in (Digits \cup Lowers \cup Uppers \cup {"_"})
    IN  IsWord(CharAt(s, i - 1)) # IsWord(CharAt(s, i))

\* offset after the longest run of characters of cls that starts at i
RunEnd(s, i, cls) ==
    IF i >= Len(s) THEN i
    ELSE CHOOSE j \in i..Len(s) :
            /\ CharAt(s, j) \notin cls
            /\ \A m \in i..(j - 1) : CharAt(s, m) \in cls

DigitsAt(s, i, n) == \A j \in i..(i + n - 1) : CharAt(s, j) \in Digits

\* /\b[A-Za-z0-9._%+-]+@[A-Za-z0-9.-]+\.[A-Z|a-z]{2,}\b/ matched at offset i:
\* the offset after the match (greedy, with backtracking), -1 when none.
\* le is the end of the local part, ds and de bound the domain, d is the
\* last dot after which a top-level domain of two letters or more ends at a
\* word boundary
EmailMatchEnd(s, i) ==
    LET EmailLocal  == Digits \cup Lowers \cup Uppers \cup {".", "_", "%", "+", "-"}
        EmailDomain == Digits \cup Lowers \cup Uppers \cup {".", "-"}
        EmailTld    == Lowers \cup Uppers \cup {"|"}
        TldEnds(d) ==
            {te \in (d + 3)..RunEnd(s, d + 1, EmailTld) : WordBoundary(s, te)}
        EmailDots(ds, de) ==
            {d \in (ds + 1)..(de - 1) : CharAt(s, d) = "." /\ TldEnds(d) # {}}
        EmailTldEnd(d) == IF d < 0 THEN -1 ELSE MaxOr(TldEnds(d), -1)
        EmailFrom(le) ==
            IF ~WordBoundary(s, i) \/ le = i \/ CharAt(s, le) # "@" THEN -1
            ELSE EmailTldEnd(MaxOr(EmailDots(le + 1, RunEnd(s, le + 1, EmailDomain)), -1))
    IN  EmailFrom(RunEnd(s, i, EmailLocal))

\* /\b\d{3}-\d{3}-\d{4}\b/
PhoneMatchEnd(s, i) ==
    IF /\ WordBoundary(s, i)
       /\ DigitsAt(s, i, 3) /\ CharAt(s, i + 3) = "-"
       /\ DigitsAt(s, i + 4, 3) /\ CharAt(s, i + 7) = "-"
       /\ DigitsAt(s, i + 8, 4)
       /\ WordBoundary(s, i + 12)
    THEN i + 12 ELSE -1

\* /\b\d{3}-\d{2}-\d{4}\b/
SsnMatchEnd(s, i) ==
    IF /\ WordBoundary(s, i)
       /\ DigitsAt(s, i, 3) /\ CharAt(s, i + 3) = "-"
       /\ DigitsAt(s, i + 4, 2) /\ CharAt(s, i + 6) = "-"
       /\ DigitsAt(s, i + 7, 4)
       /\ WordBoundary(s, i + 11)
    THEN i + 11 ELSE -1

MatchEnd(kind, s, i) ==
    CASE kind = "email" -> EmailMatchEnd(s, i)
      [] kind = "phone" -> PhoneMatchEnd(s, i)
      [] OTHER          -> SsnMatchEnd(s, i)

\* C14 mutant: the replace without the g flag, which replaces the leftmost
\* match only
ReplaceFirst(kind, s, p, repl) ==
    LET ReplaceAt(i) ==
            IF i < 0 THEN Slice(s, p, Len(s))
            ELSE Slice(s, p, i) \o repl \o Slice(s, MatchEnd(kind, s, i), Len(s))
    IN  ReplaceAt(MinOr({i \in p..(Len(s) - 1) : MatchEnd(kind, s, i) >= 0}, -1))

\* s.replace(/.../g, repl) from offset p on: leftmost matches, left to right;
\* i is the offset of the leftmost match, -1 when there is none
RECURSIVE ReplaceAll(_, _, _, _)
ReplaceAll(kind, s, p, repl) ==
    LET ReplaceFrom(i) ==
            IF i < 0 THEN Slice(s, p, Len(s))
            ELSE Slice(s, p, i) \o repl
                 \o ReplaceAll(kind, s, MatchEnd(kind, s, i), repl)
    IN  ReplaceFrom(MinOr({i \in p..(Len(s) - 1) : MatchEnd(kind, s, i) >= 0}, -1))

RegexRedact(text) ==
    ReplaceAll("ssn",
        ReplaceAll("phone",
            ReplaceAll("email", text, 0, "[EMAIL_REDACTED]"),
            0, "[PHONE_REDACTED]"),
        0, "[SSN_REDACTED]")

\* The value a successful dlp.deidentifyContent call returns: each finding
\* replaced by its info type (replaceWithInfoTypeConfig)
DlpDeidentify(text) ==
    ReplaceAll("ssn",
        ReplaceAll("phone",
            ReplaceAll("email", text, 0, "[EMAIL_ADDRESS]"),
            0, "[PHONE_NUMBER]"),
        0, "[US_SOCIAL_SECURITY_NUMBER]")

(***************************************************************************)
(* JSON.parse.  A parsed value is a tagged record:                         *)
(*   [t |-> "str", s |-> text]          a string (escapes resolved)        *)
(*   [t |-> "lit", s |-> text]          a number, true, false or null      *)
(*   [t |-> "arr", items |-> <<...>>]   an array                           *)
(*   [t |-> "obj", keys |-> <<...>>, vals |-> <<...>>]   an object         *)
(* A parse returns [ok, val, pos] with pos the offset after the value.     *)
(* Escapes other than \" \\ \/ \n \t and numbers other than digit runs do  *)
(* not occur in the texts of this model.                                   *)
(***************************************************************************)
\* what an absent (undefined) string is written as
Undef == "<undefined>"

ParseFail == [ok |-> FALSE, pos |-> -1]
ParseOk(v, p) == [ok |-> TRUE, val |-> v, pos |-> p]

JUndefined == [t |-> "undef"]

SkipWs(s, i) == RunEnd(s, i, WhiteSpace)

\* JSON.parse(s): [ok |-> FALSE] stands for the SyntaxError it throws
JSONParse(s) ==
    LET \* the body of a string literal with its escapes resolved, Undef
        \* when an escape is not valid, one escape at a time
        RECURSIVE Unescape(_)
        UnescapeRest(body, b, e, rest) ==
            IF e \notin {Q, "\\", "/", "n", "t"} \/ rest = Undef THEN Undef
            ELSE Slice(body, 0, b)
                 \o (IF e = "n" THEN "\n" ELSE IF e = "t" THEN "\t" ELSE e)
                 \o rest
        UnescapeAt(body, b) ==
            IF b < 0 THEN body
            ELSE UnescapeRest(body, b, CharAt(body, b + 1),
                              Unescape(Slice(body, b + 2, Len(body))))
        Unescape(body) == UnescapeAt(body, IndexOf(body, "\\"))

        \* a quote at offset k closes the string that opened before offset i
        \* when an even number of backslashes precedes it
        BackslashRun(i, k) == {m \in i..k : \A n \in m..(k - 1) : CharAt(s, n) = "\\"}
        ClosesString(i, k) ==
            CharAt(s, k) = Q /\ (k - MinOr(BackslashRun(i, k), k)) % 2 = 0

        \* the string literal whose opening quote is before offset i
        StringUnescaped(u, k) ==
            IF u = Undef THEN ParseFail ELSE ParseOk([t |-> "str", s |-> u], k + 1)
        StringBody(body, k) ==
            IF Includes(body, "\n") \/ Includes(body, "\t") THEN ParseFail
            ELSE StringUnescaped(Unescape(body), k)
        StringClosedAt(i, k) ==
            IF k < 0 THEN ParseFail ELSE StringBody(Slice(s, i, k), k)
        ParseString(i) ==
            StringClosedAt(i, MinOr({k \in i..(Len(s) - 1) : ClosesString(i, k)}, -1))

        RECURSIVE ParseValue(_), ValueAt(_), ParseMembers(_, _, _, _),
                  MemberKey(_, _, _), MemberColon(_, _, _, _),
                  MemberValue(_, _, _), MemberNext(_, _, _),
                  ParseElements(_, _, _), ElementValue(_, _), ElementNext(_, _)

        NumberTo(i, e) == ParseOk([t |-> "lit", s |-> Slice(s, i, e)], e)

        ParseValue(i) == ValueAt(SkipWs(s, i))

        \* the value that starts at offset i
        ValueAt(i) ==
            IF CharAt(s, i) = Q THEN ParseString(i + 1)
            ELSE IF CharAt(s, i) = "{"
            THEN ParseMembers(SkipWs(s, i + 1), <<>>, <<>>, TRUE)
            ELSE IF CharAt(s, i) = "[" THEN ParseElements(SkipWs(s, i + 1), <<>>, TRUE)
            ELSE IF CharAt(s, i) \in Digits THEN NumberTo(i, RunEnd(s, i, Digits))
            ELSE IF StartsWithAt(s, "true", i)
            THEN ParseOk([t |-> "lit", s |-> "true"], i + 4)
            ELSE IF StartsWithAt(s, "false", i)
            THEN ParseOk([t |-> "lit", s |-> "false"], i + 5)
            ELSE IF StartsWithAt(s, "null", i)
            THEN ParseOk([t |-> "lit", s |-> "null"], i + 4)
            ELSE ParseFail

        \* i is the offset of the next member (or of the closing brace when
        \* first)
        ParseMembers(i, keys, vals, first) ==
            IF first /\ CharAt(s, i) = "}"
            THEN ParseOk([t |-> "obj", keys |-> keys, vals |-> vals], i + 1)
            ELSE IF CharAt(s, i) # Q THEN ParseFail
            ELSE MemberKey(keys, vals, ParseString(i + 1))

        \* k is the parse of the member's key
        MemberKey(keys, vals, k) ==
            IF ~k.ok THEN ParseFail
            ELSE MemberColon(keys, vals, k.val.s, SkipWs(s, k.pos))

        \* c is the offset where the colon has to be
        MemberColon(keys, vals, key, c) ==
            IF CharAt(s, c) # ":" THEN ParseFail
            ELSE MemberValue(Append(keys, key), vals, ParseValue(c + 1))

        \* v is the parse of the member's value
        MemberValue(keys, vals, v) ==
            IF ~v.ok THEN ParseFail
            ELSE MemberNext(keys, Append(vals, v.val), SkipWs(s, v.pos))

        \* n is the offset after the member
        MemberNext(keys, vals, n) ==
            IF CharAt(s, n) = "," THEN ParseMembers(SkipWs(s, n + 1), keys, vals, FALSE)
            ELSE IF CharAt(s, n) = "}"
            THEN ParseOk([t |-> "obj", keys |-> keys, vals |-> vals], n + 1)
            ELSE ParseFail

        ParseElements(i, items, first) ==
            IF first /\ CharAt(s, i) = "]"
            THEN ParseOk([t |-> "arr", items |-> items], i + 1)
            ELSE ElementValue(items, ParseValue(i))

        ElementValue(items, v) ==
            IF ~v.ok THEN ParseFail
            ELSE ElementNext(Append(items, v.val), SkipWs(s, v.pos))

        ElementNext(items, n) ==
            IF CharAt(s, n) = "," THEN ParseElements(SkipWs(s, n + 1), items, FALSE)
            ELSE IF CharAt(s, n) = "]"
            THEN ParseOk([t |-> "arr", items |-> items], n + 1)
            ELSE ParseFail

        \* nothing but white space may follow the value
        WholeText(r) == IF r.ok /\ SkipWs(s, r.pos) = Len(s) THEN r ELSE ParseFail
    IN  WholeText(ParseValue(0))

\* v[key] of a parsed value (the last of duplicate keys wins)
JGet(v, key) ==
    IF v.t # "obj" THEN JUndefined
    ELSE IF \A i \in DOMAIN v.keys : v.keys[i] # key THEN JUndefined
    ELSE v.vals[MaxOr({i \in DOMAIN v.keys : v.keys[i] = key}, 0)]

(***************************************************************************)
(* AnalysisResult as the handlers see it.  JSON.parse(...) as              *)
(* AnalysisResult is a cast, not a validation: a field the parsed object   *)
(* lacks is Undef.  The generation outputs of this model carry string      *)
(* fields, clause arrays of objects, and no segments or citations.         *)
(***************************************************************************)
AsString(v) == IF v.t = "str" THEN v.s ELSE Undef

RECURSIVE DigitsValue(_)
DigitsValue(d) ==
    IF d = "" THEN 0
    ELSE 10 * DigitsValue(SubSeq(d, 1, Len(d) - 1))
         + (CHOOSE n \in 0..9 : CharAt("0123456789", n) = CharAt(d, Len(d) - 1))

\* clause.page: 0 stands for undefined (and for 0: both are falsy)
AsPage(v) == IF v.t = "lit" /\ v.s \notin {"true", "false", "null"}
             THEN DigitsValue(v.s) ELSE 0

ClauseOf(v) ==
    [id       |-> AsString(JGet(v, "id")),
     title    |-> AsString(JGet(v, "title")),
     original |-> AsString(JGet(v, "original")),
     simple   |-> AsString(JGet(v, "simple")),
     why      |-> AsString(JGet(v, "why")),
     risk     |-> AsString(JGet(v, "risk")),
     page     |-> AsPage(JGet(v, "page"))]

\* shape: "object" for a parsed object, "primitive" for any other value
\* clausesKind: "array", "undefined", or "other" (a value with no forEach/map)
ResultOf(v) ==
    LET cl == JGet(v, "clauses")
    IN  [shape       |-> IF v.t = "obj" THEN "object" ELSE "primitive",
         summary     |-> AsString(JGet(v, "summary")),
         overallRisk |-> AsString(JGet(v, "overallRisk")),
         language    |-> AsString(JGet(v, "language")),
         clausesKind |-> IF cl.t = "arr" THEN "array"
                         ELSE IF cl.t = "undef" \/ (cl.t = "lit" /\ cl.s = "null")
                              THEN "undefined" ELSE "other",
         clauses     |-> IF cl.t = "arr"
                         THEN [i \in 1..Len(cl.items) |-> ClauseOf(cl.items[i])]
                         ELSE <<>>,
         segmentsDefined     |-> FALSE,
         segments            |-> <<>>,
         pageAnalysisDefined |-> FALSE,
         pageAnalysis        |-> <<>>]

(***************************************************************************)
(* The documents of the model.  A document is its pages; a page is its     *)
(* text and the lines a layout extraction finds on it (offsets into the    *)
(* page text, and the normalized vertices of the line's polygon in         *)
(* thousandths of the page).  All coordinates of the model are in          *)
(* thousandths: 0.05 is 50.                                                *)
(***************************************************************************)
Box == <<[x |-> 100, y |-> 100], [x |-> 900, y |-> 100],
         [x |-> 900, y |-> 150], [x |-> 100, y |-> 150]>>

PiiPageText == "Mail bob@corp.io or call 555-123-4567 about the liability for damages"

LoremDoc == [pages |-> <<[text  |-> "Lorem ipsum dolor sit amet",
                          lines |-> <<[startIndex |-> 0, endIndex |-> 11,
                                       vertices |-> Box]>>]>>]
PiiDoc   == [pages |-> <<[text  |-> PiiPageText,
                          lines |-> <<[startIndex |-> 0, endIndex |-> 16,
                                       vertices |-> Box]>>],
                         [text  |-> "Late fee is due",
                          lines |-> <<[startIndex |-> 0, endIndex |-> 15,
                                       vertices |-> SubSeq(Box, 1, 3)]>>]>>]
BlankDoc == [pages |-> <<[text |-> "  ", lines |-> <<>>]>>]
GoodsDoc == [pages |-> <<[text |-> "We buy goods", lines |-> <<>>]>>]
LoanDoc  == [pages |-> <<[text |-> "The loan carries interest", lines |-> <<>>]>>]
LongDoc  == [pages |-> <<[text |-> "Notice", lines |-> <<>>],
                         [text |-> "", lines |-> <<>>],
                         [text |-> "Signed", lines |-> <<>>]>>]
\* a page of more than 100 characters that touches eight clause topics
TermsDoc == [pages |-> <<[text |-> "Pay the rent on time. You may cancel or renew each year. A court, a patent, a secret, a fine and a policy apply.",
                          lines |-> <<>>]>>]
\* a page of 59 characters on payment only and a page of exactly 50
\* characters on none of the topics; a line at the left edge of the page,
\* whose vertices lack the x that is 0, and a line without a polygon
RentDoc  == [pages |-> <<[text |-> "The tenant shall pay the monthly rent before the fifth day.",
                          lines |-> <<[startIndex |-> 0, endIndex |-> 10,
                                       vertices |-> <<[y |-> 100],
                                                      [x |-> 900, y |-> 100],
                                                      [x |-> 900, y |-> 150],
                                                      [y |-> 150]>>]>>],
                         [text |-> "Both sides sign two copies of this paper in black.",
                          lines |-> <<[startIndex |-> 0, endIndex |-> 10,
                                       vertices |-> <<>>]>>]>>]
\* one page of 52 lines of one letter each: more lines than the labeler
\* takes
LedgerDoc == [pages |-> <<[text  |-> "abcdefghijklmnopqrstuvwxyzABCDEFGHIJKLMNOPQRSTUVWXYZ",
                           lines |-> [n \in 1..52 |->
                                        [startIndex |-> n - 1, endIndex |-> n,
                                         vertices |-> Box]]]>>]
EmptyDoc == [pages |-> <<>>]

Docs == {d \in {LoremDoc, PiiDoc, BlankDoc, GoodsDoc, LoanDoc, LongDoc, TermsDoc,
                 RentDoc, LedgerDoc} :
            Len(d.pages) <= MaxPages}

\* the text pdf-parse returns: every page's text after a blank line
RECURSIVE PdfParseText(_)
PdfParseText(doc) ==
    IF Len(doc.pages) = 0 THEN ""
    ELSE PdfParseText([pages |-> SubSeq(doc.pages, 1, Len(doc.pages) - 1)])
         \o "\n\n" \o doc.pages[Len(doc.pages)].text

\* the text the browser extracts and posts to analyze-text
ClientText(doc) == Join([k \in 1..Len(doc.pages) |-> doc.pages[k].text], "\n")

\* the page texts of the first loop of extractAndAnalyzePages: '' for a
\* page whose extraction failed
PageTextsOf(doc, failed) ==
    [k \in 1..Len(doc.pages) |->
        IF k \in failed THEN "" ELSE Trim(doc.pages[k].text)]

\* the document a layout extraction returns: the text is every page's text
\* and a line break, the anchors are offsets into it
RECURSIVE PageOffset(_, _)
PageOffset(doc, k) ==
    IF k <= 1 THEN 0
    ELSE PageOffset(doc, k - 1) + Len(doc.pages[k - 1].text) + 1

DocAiDocument(doc) ==
    [text  |-> Join([k \in 1..Len(doc.pages) |-> doc.pages[k].text \o "\n"], ""),
     pages |-> [k \in 1..Len(doc.pages) |->
                 [lines |-> [n \in 1..Len(doc.pages[k].lines) |->
                     LET l == doc.pages[k].lines[n]
                     IN  [textSegments |->
                             <<[startIndex |-> PageOffset(doc, k) + l.startIndex,
                                endIndex   |-> PageOffset(doc, k) + l.endIndex]>>,
                          normalizedVertices |-> l.vertices]]]]]

(***************************************************************************)
(* What the generation capability may return for an analysis prompt.  Its  *)
(* output is untrusted text: the handlers must cope with any of these.     *)
(***************************************************************************)
LongSummary == "This lease sets the rent, the deposit and the notice period."
FullOutput == "{\"summary\":\"This lease sets the rent, the deposit and the notice period.\",\"overallRisk\":\"high\",\"clauses\":[{\"id\":\"c1\",\"title\":\"Liability\",\"original\":\"Tenant pays for damages\",\"simple\":\"You pay\",\"why\":\"Cost\",\"risk\":\"high\"}],\"language\":\"en\"}"
\* overallRisk low with a high-risk clause
InconsistentOutput == "{\"summary\":\"This lease sets the rent, the deposit and the notice period.\",\"overallRisk\":\"low\",\"clauses\":[{\"id\":\"c1\",\"title\":\"Liability\",\"original\":\"Tenant pays for damages\",\"simple\":\"You pay\",\"why\":\"Cost\",\"risk\":\"high\"}],\"language\":\"en\"}"
FlatOutput == "{\"summary\":\"This lease sets the rent, the deposit and the notice period.\",\"overallRisk\":\"low\",\"clauses\":[],\"language\":\"en\"}"
\* an output without its final closing brace
DropLast(s) == SubSeq(s, 1, Len(s) - 1)
FencedOutput == Fence \o "json\n" \o FullOutput \o "\n" \o Fence
ProseOutput == "Sorry, I cannot analyze this."
TruncatedOutput == "{\"summary\":\"" \o LongSummary
\* three clauses, the second one with a page of its own
PagedOutput == "{\"summary\":\"A lease.\",\"overallRisk\":\"low\",\"clauses\":[{\"id\":\"c1\",\"title\":\"Rent\",\"original\":\"Pay rent\",\"simple\":\"You pay\",\"why\":\"Cost\",\"risk\":\"low\"},{\"id\":\"c2\",\"title\":\"Copies\",\"original\":\"Two copies\",\"simple\":\"Sign twice\",\"why\":\"Proof\",\"risk\":\"low\",\"page\":2},{\"id\":\"c3\",\"title\":\"Notice\",\"original\":\"Give notice\",\"simple\":\"Tell early\",\"why\":\"Time\",\"risk\":\"low\"}],\"language\":\"en\"}"
\* the well-formed outputs that lack only the final closing brace
CutOutputs == {DropLast(FullOutput), DropLast(FlatOutput)}
GenOutputs == {"", "{}", FullOutput, InconsistentOutput, FencedOutput,
               ProseOutput, TruncatedOutput, PagedOutput} \cup CutOutputs

\* what the generation capability may return for a labeling prompt
\* labels for the first line, with a risk of the enumeration
GoodLabels == "{\"labels\":[{\"i\":0,\"risk\":\"high\",\"simple\":\"Risky\"}]}"
\* labels for the first line, with a risk outside the enumeration
CriticalLabels == "{\"labels\":[{\"i\":0,\"risk\":\"critical\",\"simple\":\"Risky\"}]}"
\* an output JSON.parse throws on
BrokenLabels == "{\"labels\":[{\"i\":0,\"risk\":\"high\"}"
LabelOutputs == {"", GoodLabels, CriticalLabels, BrokenLabels}

(***************************************************************************)
(* analyzeWithGemini of pages/api/analyze: what it makes of the text the   *)
(* generation capability returned.                                         *)
(***************************************************************************)
\* Remove markdown code blocks if present:
\* .replace(/^```json\s*/, '').replace(/\s*```$/, ''), or the same with
\* /^```\s*/
StripCodeFence(s) ==
    LET TrimStart(t) == Slice(t, SkipWs(t, 0), Len(t))
        TrimEnd(t) ==
            Slice(t, 0, MaxOr({i \in 0..(Len(t) - 1) :
                                  CharAt(t, i) \notin WhiteSpace}, -1) + 1)
        StripClosingFence(t) ==
            IF EndsWith(t, Fence) THEN TrimEnd(Slice(t, 0, Len(t) - Len(Fence)))
            ELSE t
    IN  IF StartsWith(s, Fence \o "json")
        THEN StripClosingFence(TrimStart(Slice(s, Len(Fence) + 4, Len(s))))
        ELSE IF StartsWith(s, Fence)
        THEN StripClosingFence(TrimStart(Slice(s, Len(Fence), Len(s))))
        ELSE s

\* cleanTxt.match(/\{[\s\S]*\}/): from the first { to the last } after it
JsonMatch(s) ==
    LET JsonMatchBetween(open, close) ==
            IF open >= 0 /\ close > open THEN Slice(s, open, close + 1) ELSE s
    IN  JsonMatchBetween(IndexOf(s, "{"), LastIndexOf(s, "}"))

RECURSIVE Repeat(_, _)
Repeat(c, n) == IF n <= 0 THEN "" ELSE c \o Repeat(c, n - 1)

\* Fix truncated JSON by attempting to close unclosed strings and objects.
\* The text after the last quote never holds a quote, so the inner test of
\* the code is always true
RepairTruncated(s) ==
    LET CloseString ==
            IF Includes(s, Q) /\ ~EndsWith(s, Q)
               /\ ~Includes(Slice(s, LastIndexOf(s, Q) + 1, Len(s)), Q)
            THEN s \o Q ELSE s
    IN  IF EndsWith(s, "}") THEN s
        ELSE CloseString \o Repeat("}", CountChar(s, "{") - CountChar(s, "}"))

CleanGeminiText(txt) == RepairTruncated(JsonMatch(StripCodeFence(Trim(txt))))

\* txt.match(/"summary":\s*"([^"]+)"/): the captured group, Undef when none.
\* j is the offset of the opening quote, k of the next quote after it
SummaryMatch(txt) ==
    LET SummaryKey == Q \o "summary" \o Q \o ":"
        NextQuote(from) ==
            MinOr({k \in from..(Len(txt) - 1) : CharAt(txt, k) = Q}, -1)
        SummaryGroupTo(j, k) == IF k > j + 1 THEN Slice(txt, j + 1, k) ELSE Undef
        SummaryGroupFrom(i, j) ==
            IF StartsWithAt(txt, SummaryKey, i) /\ CharAt(txt, j) = Q
            THEN SummaryGroupTo(j, NextQuote(j + 1)) ELSE Undef
        SummaryGroupAt(i) == SummaryGroupFrom(i, SkipWs(txt, i + Len(SummaryKey)))
        FirstSummaryGroup(i) == IF i < 0 THEN Undef ELSE SummaryGroupAt(i)
    IN  FirstSummaryGroup(MinOr({i \in 0..(Len(txt) - 1) :
                                    SummaryGroupAt(i) # Undef}, -1))

DefaultSalvageSummary == "This document contains legal text that needs review."
GenericSummary == "This document contains important legal provisions that should be reviewed carefully. The document appears to cover corporate governance, meeting procedures, and operational guidelines. For specific legal advice regarding this document, please consult with a qualified attorney."
ReviewClauseTitle == "Document Review Required"

\* the catch block of analyzeWithGemini; summaryMatch is the group of
\* txt.match(/"summary":\s*"([^"]+)"/), Undef when there is no match
ParseFailureFallback(summaryMatch, text, language) ==
    LET summary == IF summaryMatch # Undef THEN summaryMatch
                   ELSE DefaultSalvageSummary
    IN  [shape       |-> "object",
         summary     |-> IF Len(summary) > 50 THEN summary ELSE GenericSummary,
         overallRisk |-> "medium",
         language    |-> language,
         clausesKind |-> "array",
         clauses     |-> << [id       |-> "review-1",
                             title    |-> ReviewClauseTitle,
                             original |-> Substring(text, 0, 300) \o "...",
                             simple   |-> "This document contains legal provisions that require careful review.",
                             why      |-> "Legal documents often contain important rights, obligations, and procedures that can affect your interests.",
                             risk     |-> "medium",
                             page     |-> 0] >>,
         segmentsDefined     |-> FALSE,
         segments            |-> <<>>,
         pageAnalysisDefined |-> FALSE,
         pageAnalysis        |-> <<>>]

\* || '{}': the text of the first candidate, '{}' when there is none
OutputText(raw) == IF raw = "" THEN "{}" ELSE raw

\* what the two analyzers parse and salvage from every output, computed once:
\* cleaned is JSON.parse of the cleaned and repaired text (pages/api/analyze),
\* plain is JSON.parse of the text as it is (analyze-text)
GeneratedOutputs ==
    [raw \in GenOutputs |->
        [cleaned |-> JSONParse(CleanGeminiText(OutputText(raw))),
         plain   |-> JSONParse(OutputText(raw)),
         summary |-> SummaryMatch(OutputText(raw))]]

\* analyzeWithGemini of pages/api/analyze after generateContent returned the
\* output o stands for
GeminiAnalysisFrom(o, text, language) ==
    IF o.cleaned.ok THEN ResultOf(o.cleaned.val)
    ELSE ParseFailureFallback(o.summary, text, language)

(***************************************************************************)
(* extractLineSegmentsWithDocAI and its helpers.  The pages of the         *)
(* documents of this model carry lines and no paragraphs.                  *)
(***************************************************************************)
RECURSIVE textFromAnchor(_, _)
textFromAnchor(fullText, textSegments) ==
    IF Len(textSegments) = 0 THEN ""
    ELSE Slice(fullText, Head(textSegments).startIndex, Head(textSegments).endIndex)
         \o textFromAnchor(fullText, Tail(textSegments))

DefaultBoxWidth == 1000
DefaultBoxHeight == 50
MinVertices == 4

\* C18 mutant: a triangle is taken for a box (vertices.length < 3)
BoxOfThreePoints(vertices) ==
    LET X(v) == IF "x" \in DOMAIN v THEN v.x ELSE 0
        Y(v) == IF "y" \in DOMAIN v THEN v.y ELSE 0
    IN  IF Len(vertices) < 3
        THEN [x |-> 0, y |-> 0, w |-> DefaultBoxWidth, h |-> DefaultBoxHeight]
        ELSE [x |-> X(vertices[1]),
              y |-> Y(vertices[1]),
              w |-> X(vertices[3]) - X(vertices[1]),
              h |-> Y(vertices[3]) - Y(vertices[1])]

\* a line without a polygon has the vertex list <<>>: !vertices and
\* vertices.length < 4 give the same box
getBoundingBox(vertices) ==
    LET \* v.x || 0 and v.y || 0: a coordinate the vertex lacks counts as 0
        X(v) == IF "x" \in DOMAIN v THEN v.x ELSE 0
        Y(v) == IF "y" \in DOMAIN v THEN v.y ELSE 0
    IN  IF Len(vertices) < MinVertices
        THEN [x |-> 0, y |-> 0, w |-> DefaultBoxWidth, h |-> DefaultBoxHeight]
        ELSE [x |-> X(vertices[1]),
              y |-> Y(vertices[1]),
              w |-> X(vertices[3]) - X(vertices[1]),
              h |-> Y(vertices[3]) - Y(vertices[1])]

\* the value extractLineSegmentsWithDocAI returns for a document with text
extractLineSegments(document) ==
    LET \* the segments of one page: the lines whose text is not blank
        PageSegments(page, pageIndex) ==
            LET NonBlank(line) ==
                    Trim(textFromAnchor(document.text, line.textSegments)) # ""
                kept == SelectSeq(page.lines, NonBlank)
            IN  [n \in 1..Len(kept) |->
                    [page |-> pageIndex + 1,
                     text |-> Trim(textFromAnchor(document.text,
                                                  kept[n].textSegments)),
                     bbox |-> getBoundingBox(kept[n].normalizedVertices)]]
        \* the segments of the first k pages
        RECURSIVE SegmentsUpTo(_)
        SegmentsUpTo(k) ==
            IF k = 0 THEN <<>>
            ELSE SegmentsUpTo(k - 1) \o PageSegments(document.pages[k], k - 1)
    IN  [text |-> document.text, segments |-> SegmentsUpTo(Len(document.pages))]

(***************************************************************************)
(* labelSegmentsWithGemini.                                                *)
(***************************************************************************)
\* the outcome of a generation call that threw
GenerationError == "<error>"

\* C24 mutant: the labeler takes as many segments as the longest document has
LabelsEveryLine == Len(LedgerDoc.pages[1].lines)

MaxLabeledSegments == 50

\* .replace(/```json|```/g, ''), one fence at a time
RECURSIVE RemoveFences(_)
RemoveFences(s) ==
    LET b == IndexOf(s, Fence)
        e == IF StartsWithAt(s, Fence \o "json", b) THEN b + Len(Fence) + 4
             ELSE b + Len(Fence)
    IN  IF b < 0 THEN s
        ELSE Slice(s, 0, b) \o RemoveFences(Slice(s, e, Len(s)))

\* outcome "error": generateContent threw; otherwise outcome is its text
labelSegmentsWithGemini(segs, language, outcome) ==
    LET NoLabels == "{\"labels\":[]}"
        \* whether /\{[\s\S]*\}/ matches
        HasJsonMatch(s) ==
            IndexOf(s, "{") >= 0 /\ LastIndexOf(s, "}") > IndexOf(s, "{")
        \* labels of the try block: parsed.labels || [], [] when the parse
        \* throws
        LabelsOf(txt0) ==
            LET txt      == IF txt0 = "" THEN NoLabels ELSE txt0
                cleanTxt == Trim(RemoveFences(txt))
                matched  == IF HasJsonMatch(cleanTxt) THEN JsonMatch(cleanTxt)
                            ELSE NoLabels
                parsed   == JSONParse(matched)
            IN  IF parsed.ok /\ JGet(parsed.val, "labels").t = "arr"
                THEN JGet(parsed.val, "labels").items ELSE <<>>
        \* the label with l.i === i, JUndefined when there is none
        LabelFor(labels, i) ==
            LET hit == {n \in 1..Len(labels) :
                           AsPage(JGet(labels[n], "i")) = i
                           /\ JGet(labels[n], "i").t = "lit"}
            IN  IF hit = {} THEN JUndefined
                ELSE labels[CHOOSE n \in hit : \A m \in hit : n <= m]
        \* seg-i of `seg-${i}`
        SegmentId(i) == "seg-" \o ToString(i)
        maxSegments == Min(Len(segs), MaxLabeledSegments)
        labels      == IF outcome = GenerationError THEN <<>> ELSE LabelsOf(outcome)
    IN  [n \in 1..maxSegments |->
            LET i     == n - 1
                label == LabelFor(labels, i)
                risk   == AsString(JGet(label, "risk"))
                simple == AsString(JGet(label, "simple"))
            IN  [id     |-> SegmentId(i),
                 page   |-> segs[n].page,
                 bbox   |-> segs[n].bbox,
                 text   |-> segs[n].text,
                 risk   |-> IF outcome = GenerationError THEN "low"
                            ELSE IF risk \in {Undef, ""} THEN "low" ELSE risk,
                 simple |-> IF outcome = GenerationError
                            THEN "Legal text requiring review."
                            ELSE IF simple \in {Undef, ""}
                            THEN "Standard legal text." ELSE simple]]

(***************************************************************************)
(* The redaction calls.  A DLP call ends in one of three ways: it returns  *)
(* the de-identified value, it returns a response without an item, or it   *)
(* throws.                                                                 *)
(***************************************************************************)
DlpOutcomes == {"value", "noitem", "error"}

\* the texts a redaction call can be given: what an extraction returns for
\* a document, and the text of a line segment
SourceTexts ==
    UNION {{PdfParseText(d), ClientText(d), DocAiDocument(d).text}
           \cup {s.text : s \in Range(extractLineSegments(DocAiDocument(d)).segments)} :
           d \in Docs}

\* what the two redactors make of every such text, computed once
Redactions ==
    [t \in SourceTexts |-> [regex |-> RegexRedact(t), value |-> DlpDeidentify(t)]]

\* r is what the two redactors make of text
Redacted(r, text, regexOnly, outcome) ==
    IF regexOnly THEN r.regex
    ELSE IF outcome = "value" THEN r.value
    ELSE text

\* redactWithDLP of pages/api/analyze; dlpClient is FALSE when dlp is null
redactWithDLP(text, dlpClient, outcome) ==
    Redacted(Redactions[text], text, ~dlpClient, outcome)

\* redacted of POST after its try/catch around redactPIIWithDLP
redactPIIWithDLP(input, mockMode, outcome) ==
    IF Trim(input) = "" THEN input
    ELSE Redacted(Redactions[input], input, mockMode, outcome)

\* every text an analyzer can be given
AnalyzedTexts ==
    LET TextsOf(R) == UNION {{t, R[t].regex, R[t].value} : t \in DOMAIN R}
    IN  TextsOf(Redactions)

(***************************************************************************)
(* The fallback heuristic engine: generateMockAnalysis (the same text in   *)
(* app/api/analyze-text/route.ts and in the guarded build of               *)
(* pages/api/analyze).                                                     *)
(***************************************************************************)
\* the keyword sets of documentPatterns
Keywords ==
    [payment |-> {"payment", "pay", "fee", "cost", "price", "invoice", "billing"},
     termination |-> {"terminate", "cancel", "end", "expire", "dissolution", "exit"},
     liability |-> {"liability", "responsible", "damages", "loss", "harm", "indemnify"},
     renewal |-> {"renew", "automatic", "extend", "continue", "perpetual"},
     arbitration |-> {"arbitration", "dispute", "court", "litigation", "mediation"},
     intellectual |-> {"intellectual", "copyright", "trademark", "patent", "proprietary"},
     confidentiality |-> {"confidential", "non-disclosure", "secret", "private"},
     warranty |-> {"warranty", "guarantee", "representation", "promise"},
     compliance |-> {"comply", "regulation", "standard", "requirement"},
     penalty |-> {"penalty", "fine", "breach", "default", "violation"},
     insurance |-> {"insurance", "coverage", "policy", "claim"},
     employment |-> {"employee", "work", "salary", "benefits", "vacation"},
     real_estate |-> {"property", "lease", "rent", "premises", "landlord"},
     purchase |-> {"purchase", "buy", "sale", "goods", "product"},
     service |-> {"service", "perform", "deliver", "provide"},
     loan |-> {"loan", "credit", "debt", "interest", "mortgage"},
     partnership |-> {"partner", "joint", "collaborate", "venture"},
     data |-> {"data", "information", "personal", "privacy", "gdpr"}]

\* C16 mutant: && in place of ||, every keyword has to be there
IncludesEvery(words, kws) == \A k \in kws : Includes(words, k)

\* words.includes(k) || ... over the keywords kws
IncludesAny(words, kws) == \E k \in kws : Includes(words, k)

documentPatterns(words) ==
    [a \in DOMAIN Keywords |-> IncludesAny(words, Keywords[a])]

\* clauseTemplates of getClauseData
clauseTemplates(docType, patterns) ==
    [payment |->
        [title  |-> "Payment and Financial Terms",
         simple |-> "This section covers how much you need to pay, when payments are due, and what happens if you're late. " \o (IF docType = "loan" THEN "Interest rates and repayment schedules are crucial here." ELSE IF docType = "employment" THEN "This includes your salary, benefits, and payment schedule." ELSE "Understanding payment terms helps you budget and avoid penalties."),
         why    |-> "Payment terms directly impact your budget and financial planning. Late payment penalties can be expensive, and understanding these terms helps you avoid unnecessary costs.",
         risk   |-> "medium"],
     termination |->
        [title  |-> "Termination and Exit Procedures",
         simple |-> "This explains how the relationship can end, what notice is required, and any penalties for early termination. " \o (IF docType = "employment" THEN "This covers how you can quit or be fired." ELSE IF docType = "real_estate" THEN "This covers lease termination and move-out procedures." ELSE "This covers how to properly end the agreement."),
         why    |-> "Knowing your exit options is crucial for maintaining flexibility and avoiding being locked into unfavorable terms longer than necessary.",
         risk   |-> IF patterns.penalty THEN "high" ELSE "medium"],
     liability |->
        [title  |-> "Liability and Risk Allocation",
         simple |-> "This determines who pays when things go wrong, including accidents, damages, or legal issues. " \o (IF docType = "employment" THEN "This might cover workplace injuries or professional errors." ELSE IF docType = "real_estate" THEN "This covers property damage and injury liability." ELSE "This affects who is responsible for various types of problems."),
         why    |-> "Liability clauses can expose you to significant financial risk or limit your ability to recover losses. These provisions can cost thousands if you don't understand them.",
         risk   |-> "high"],
     arbitration |->
        [title  |-> "Dispute Resolution and Legal Rights",
         simple |-> "This controls how disagreements are resolved, potentially requiring arbitration instead of court proceedings. You might be limited in where and how you can pursue legal claims.",
         why    |-> "Arbitration clauses can significantly limit your legal rights and make it more expensive and difficult to pursue legitimate complaints or seek compensation.",
         risk   |-> "high"],
     renewal |->
        [title  |-> "Renewal and Continuation Terms",
         simple |-> "This covers whether the agreement automatically continues and what you need to do to prevent unwanted renewals. " \o (IF docType = "real_estate" THEN "This might involve automatic lease renewals." ELSE "This could lock you into continued obligations."),
         why    |-> "Auto-renewal clauses can trap you in agreements longer than intended, potentially at different rates or terms that may not be favorable.",
         risk   |-> "medium"],
     intellectual |->
        [title  |-> "Intellectual Property and Ownership Rights",
         simple |-> "This determines who owns ideas, creations, or innovations developed during the relationship. " \o (IF docType = "employment" THEN "This often means your employer owns work you create on the job." ELSE "This affects ownership of any collaborative work or innovations."),
         why    |-> "IP clauses can affect your future business opportunities and ownership rights to valuable creations or innovations.",
         risk   |-> "medium"],
     confidentiality |->
        [title  |-> "Confidentiality and Non-Disclosure Requirements",
         simple |-> "This requires you to keep certain information secret and may restrict what you can discuss about the relationship or business.",
         why    |-> "Confidentiality agreements can limit your ability to discuss your experience, seek advice, or use knowledge gained in future opportunities.",
         risk   |-> "medium"],
     penalty |->
        [title  |-> "Penalties and Default Consequences",
         simple |-> "This outlines the financial and legal consequences if you fail to meet your obligations under the agreement.",
         why    |-> "Penalty clauses can result in significant unexpected costs and should be understood before you commit to any agreement.",
         risk   |-> "high"],
     insurance |->
        [title  |-> "Insurance and Coverage Requirements",
         simple |-> "This specifies what insurance coverage you must maintain and who is responsible for various types of claims or losses.",
         why    |-> "Insurance requirements can add significant costs to your obligations and affect your financial protection in case of problems.",
         risk   |-> "medium"],
     compliance |->
        [title  |-> "Compliance and Regulatory Requirements",
         simple |-> "This outlines legal and regulatory standards you must follow and the consequences of non-compliance.",
         why    |-> "Compliance failures can result in legal penalties, fines, or contract termination, making it important to understand these requirements.",
         risk   |-> "medium"],
     data |->
        [title  |-> "Data Privacy and Information Handling",
         simple |-> "This covers how personal information is collected, used, and protected, including your privacy rights and data security measures.",
         why    |-> "Data privacy terms affect your personal information security and may impact your legal rights if data breaches or misuse occur.",
         risk   |-> "medium"],
     warranty |->
        [title  |-> "Warranties and Quality Guarantees",
         simple |-> "This outlines what promises are made about quality, performance, or reliability, and what recourse you have if expectations aren't met.",
         why    |-> "Warranty terms determine your protection and remedies if products or services don't meet promised standards.",
         risk   |-> "low"]]

\* docSpecificClauses of getFallbackClauses
docSpecificClauses ==
    [employment |-> <<
        [title |-> "Job Duties and Performance Expectations", risk |-> "low", page |-> 2],
        [title |-> "Benefits and Compensation Details", risk |-> "medium", page |-> 2],
        [title |-> "Workplace Policies and Procedures", risk |-> "low", page |-> 3]
        >>,
     real_estate |-> <<
        [title |-> "Property Condition and Inspection Rights", risk |-> "medium", page |-> 2],
        [title |-> "Maintenance and Repair Responsibilities", risk |-> "medium", page |-> 3],
        [title |-> "Utilities and Additional Costs", risk |-> "low", page |-> 3]
        >>,
     loan |-> <<
        [title |-> "Interest Rates and Payment Schedule", risk |-> "high", page |-> 2],
        [title |-> "Collateral and Security Requirements", risk |-> "high", page |-> 3],
        [title |-> "Default and Acceleration Clauses", risk |-> "high", page |-> 3]
        >>,
     general |-> <<
        [title |-> "General Terms and Conditions", risk |-> "low", page |-> 2],
        [title |-> "Miscellaneous Provisions", risk |-> "low", page |-> 4]
        >>]

getDocumentType(patterns) ==
    IF patterns.employment THEN "employment"
    ELSE IF patterns.real_estate THEN "real_estate"
    ELSE IF patterns.loan THEN "loan"
    ELSE IF patterns.purchase THEN "purchase"
    ELSE IF patterns.partnership THEN "partnership"
    ELSE IF patterns.service THEN "service"
    ELSE "general"

getDocumentTitle(docType) ==
    LET titles ==
        [employment |-> "Employment Agreement Overview",
         real_estate |-> "Property Agreement Structure",
         loan |-> "Loan Agreement Framework",
         purchase |-> "Purchase Agreement Details",
         partnership |-> "Partnership Agreement Foundation",
         service |-> "Service Agreement Introduction",
         general |-> "Document Structure and Organization"]
    IN  titles[docType]

getDocumentSimpleExplanation(docType) ==
    LET explanations ==
        [employment |-> "This document establishes the working relationship between you and your employer, including your job duties, compensation, and workplace rules.",
         real_estate |-> "This agreement covers the property transaction, including rights, responsibilities, and conditions for the property involved.",
         loan |-> "This document outlines the terms of borrowing money, including repayment schedule, interest rates, and consequences of non-payment.",
         purchase |-> "This agreement details what you're buying, the price, delivery terms, and what happens if there are problems with the purchase.",
         partnership |-> "This document establishes how the business partnership will operate, including roles, profit sharing, and decision-making processes.",
         service |-> "This agreement explains what services will be provided, how much they cost, and the standards expected from both parties.",
         general |-> "This document establishes the basic framework and definitions for the legal agreement between the parties."]
    IN  explanations[docType]

\* C15 mutant: the reason of the introduction clause repeats its title
WhyRepeatsTitle(docType) == getDocumentTitle(docType)

getDocumentWhyItMatters(docType) ==
    LET reasons ==
        [employment |-> "Understanding your employment terms protects your career interests and helps you know your rights and obligations as an employee.",
         real_estate |-> "Property agreements involve significant money and legal obligations, so understanding these terms protects your investment and rights.",
         loan |-> "Loan terms directly affect your financial future and credit, so knowing these details helps you avoid costly mistakes and default.",
         purchase |-> "Purchase agreements protect you from fraud and ensure you get what you paid for, while clarifying your recourse if problems arise.",
         partnership |-> "Partnership terms affect your business control, profits, and personal liability, making it crucial to understand your commitments.",
         service |-> "Service agreements set expectations and protect both parties, helping avoid disputes and ensuring you get the value you're paying for.",
         general |-> "Understanding the document structure helps you navigate the contract effectively and know where to find important information."]
    IN  reasons[docType]


\* C25 mutant: the detected areas in the order of documentPatterns
AreasInPatternOrder(patterns) ==
    LET PatternOrder ==
            <<"payment", "termination", "liability", "renewal", "arbitration",
              "intellectual", "confidentiality", "warranty", "compliance",
              "penalty", "insurance", "data">>
        Detected(a) == patterns[a]
    IN  SelectSeq(PatternOrder, Detected)

\* the detected areas, in the order in which generateClausesForDocument
\* pushes them
contentAreas(patterns) ==
    LET AreaOrder ==
            <<"payment", "termination", "liability", "arbitration", "renewal",
              "intellectual", "confidentiality", "penalty", "insurance",
              "compliance", "data", "warranty">>
        Detected(a) == patterns[a]
    IN  SelectSeq(AreaOrder, Detected)

ClauseWindow == 200
FallbackWindow == 150
IntroWindow == 200

\* textEnd = Math.min(textStart + size, text.length), then
\* text.slice(textStart, textEnd) + (textEnd < text.length ? '...' : '')
WindowExcerpt(text, textStart, size) ==
    LET Excerpt(textEnd) ==
            Slice(text, textStart, textEnd)
            \o (IF textEnd < Len(text) THEN "..." ELSE "")
    IN  Excerpt(Min(textStart + size, Len(text)))

\* index is the 0-based position of the area in contentAreas
getClauseData(area, docType, text, index, patterns) ==
    LET ClauseDataOf(tpl) ==
            [title    |-> tpl.title,
             original |-> WindowExcerpt(text, Min((index + 1) * ClauseWindow,
                                                  Len(text) - ClauseWindow),
                                        ClauseWindow),
             simple   |-> tpl.simple,
             why      |-> tpl.why,
             risk     |-> tpl.risk,
             page     |-> (index \div 2) + 2]
    IN  ClauseDataOf(clauseTemplates(docType, patterns)[area])

getFallbackClauses(docType, text, startingId) ==
    LET FallbackClause(clause, index) ==
            [id       |-> "c" \o ToString(startingId + index),
             title    |-> clause.title,
             original |-> WindowExcerpt(text, Min((index + 3) * FallbackWindow,
                                                  Len(text) - FallbackWindow),
                                        FallbackWindow),
             simple   |-> "This section covers " \o ToLowerCase(clause.title)
                          \o " which is important for understanding your obligations and rights.",
             why      |-> "Understanding these terms helps ensure you comply with all requirements and know what to expect.",
             risk     |-> clause.risk,
             page     |-> clause.page]
        FallbackClausesFrom(relevantClauses) ==
            [n \in 1..Len(relevantClauses) |->
                FallbackClause(relevantClauses[n], n - 1)]
    IN  FallbackClausesFrom(IF docType \in DOMAIN docSpecificClauses
                            THEN docSpecificClauses[docType]
                            ELSE docSpecificClauses.general)

MinClauses == 4

\* the clauses generateClausesForDocument pushes: the introduction, one clause
\* for each detected area, then the fallback clauses
generateClausesForDocument(text, docType, patterns) ==
    LET IntroClause ==
            [id       |-> "c1",
             title    |-> getDocumentTitle(docType),
             original |-> Slice(text, 0, Min(IntroWindow, Len(text)))
                          \o (IF Len(text) > IntroWindow THEN "..." ELSE ""),
             simple   |-> getDocumentSimpleExplanation(docType),
             why      |-> getDocumentWhyItMatters(docType),
             risk     |-> "low",
             page     |-> 1]
        \* the clause pushed for the n-th detected area, d its getClauseData
        TopicClause(n, d) ==
            [id       |-> "c" \o ToString(n + 1),
             title    |-> d.title,
             original |-> d.original,
             simple   |-> d.simple,
             why      |-> d.why,
             risk     |-> d.risk,
             page     |-> d.page]
        TopicClauses(areas) ==
            [n \in 1..Len(areas) |->
                TopicClause(n, getClauseData(areas[n], docType, text, n - 1,
                                             patterns))]
        \* the fallback clauses are appended when the pushes so far are fewer
        \* than MinClauses; clauseId then is one more than their number
        WithFallback(pushed) ==
            IF Len(pushed) < MinClauses
            THEN pushed \o getFallbackClauses(docType, text, Len(pushed) + 1)
            ELSE pushed
    IN  WithFallback(<<IntroClause>> \o TopicClauses(contentAreas(patterns)))

\* C28 mutant: the pushes of the filler clauses are not counted
riskCountBeforeFillers(clauses) ==
    LET CountRisk(level) ==
            Cardinality({i \in DOMAIN clauses :
                            /\ clauses[i].risk = level
                            /\ ~StartsWith(clauses[i].simple, "This section covers ")})
    IN  [high   |-> CountRisk("high"),
         medium |-> CountRisk("medium"),
         low    |-> CountRisk("low")]

\* riskCount after generateClausesForDocument: one increment with every push
riskCountOf(clauses) ==
    LET CountRisk(level) ==
            Cardinality({i \in DOMAIN clauses : clauses[i].risk = level})
    IN  [high   |-> CountRisk("high"),
         medium |-> CountRisk("medium"),
         low    |-> CountRisk("low")]

\* the clauses of every text an analyzer can be given, computed once
DocumentClauses ==
    LET ClausesOfText(text, patterns) ==
            generateClausesForDocument(text, getDocumentType(patterns), patterns)
    IN  [t \in AnalyzedTexts |-> ClausesOfText(t, documentPatterns(ToLowerCase(t)))]

\* the value generateMockAnalysis returns for the clauses pushed
MockAnalysisFrom(clauses, language) ==
    LET MockAnalysisOf(riskCount) ==
            [shape       |-> "object",
             summary     |-> "This document has been analyzed and contains "
                             \o ToString(Len(clauses)) \o " key section"
                             \o (IF Len(clauses) = 1 THEN "" ELSE "s") \o ". "
                             \o (IF riskCount.high > 0
                                 THEN "There are " \o ToString(riskCount.high)
                                      \o " high-risk areas requiring careful attention, particularly around liability and penalties."
                                 ELSE IF riskCount.medium > 0
                                 THEN "There are " \o ToString(riskCount.medium)
                                      \o " medium-risk areas to review, mainly concerning payments and renewals."
                                 ELSE "The document appears to have standard terms with low overall risk.")
                             \o " Please review each section carefully and consider seeking legal advice for important decisions.",
             overallRisk |-> IF riskCount.high > 0 THEN "high"
                             ELSE IF riskCount.medium > 0 THEN "medium" ELSE "low",
             language    |-> language,
             clausesKind |-> "array",
             clauses     |-> clauses,
             segmentsDefined     |-> FALSE,
             segments            |-> <<>>,
             pageAnalysisDefined |-> FALSE,
             pageAnalysis        |-> <<>>]
    IN  MockAnalysisOf(riskCountOf(clauses))

generateMockAnalysis(text, language) ==
    MockAnalysisFrom(DocumentClauses[text], language)

(***************************************************************************)
(* The page analyzer of pages/api/analyze: analyzePageContent and the      *)
(* loop of extractAndAnalyzePages over the page texts.                     *)
(***************************************************************************)
MinimalPageChars == 50
BriefPageChars == 100
SnippetChars == 200

\* .replace(/\s+/g, ' '): one white-space run at a time
RECURSIVE CollapseWhiteSpace(_)
CollapseWhiteSpace(s) ==
    LET ws == {i \in 0..(Len(s) - 1) : CharAt(s, i) \in WhiteSpace}
        b  == CHOOSE i \in ws : \A j \in ws : i <= j
    IN  IF ws = {} THEN s
        ELSE Slice(s, 0, b) \o " "
             \o CollapseWhiteSpace(Slice(s, RunEnd(s, b, WhiteSpace), Len(s)))

analyzePageContent(pageText, pageNumber, language) ==
    LET \* the items whose flag is set, in order: one push for each
        PickSeq(flags, items) ==
            LET Chosen(n) == flags[n]
                idx == SelectSeq([n \in 1..Len(items) |-> n], Chosen)
            IN  [k \in 1..Len(idx) |-> items[idx[k]]]
        words          == ToLowerCase(pageText)
        hasPayment     == IncludesAny(words, {"payment", "pay", "fee", "cost", "price"})
        hasTermination == IncludesAny(words, {"terminate", "cancel", "end", "expire"})
        hasLiability   == IncludesAny(words, {"liability", "responsible", "damages", "loss"})
        hasArbitration == IncludesAny(words, {"arbitration", "dispute", "court"})
        hasConfidential == IncludesAny(words, {"confidential", "non-disclosure", "secret"})
        hasIntellectual == IncludesAny(words, {"intellectual", "copyright", "trademark"})
        riskLevel == IF hasLiability \/ hasArbitration THEN "high"
                     ELSE IF hasPayment \/ hasTermination \/ hasConfidential
                             \/ hasIntellectual
                     THEN "medium" ELSE "low"
        pg == "Page " \o ToString(pageNumber)
        contentTypes ==
            PickSeq(<<hasPayment, hasTermination, hasLiability, hasArbitration,
                      hasConfidential, hasIntellectual>>,
                    <<"payment terms", "termination procedures",
                      "liability provisions", "dispute resolution",
                      "confidentiality requirements",
                      "intellectual property rights">>)
        snippet == Trim(CollapseWhiteSpace(Slice(pageText, 0, SnippetChars)))
        summary ==
            IF Len(pageText) < BriefPageChars
            THEN pg \o " contains brief content, likely introductory or transitional material."
            ELSE IF Len(contentTypes) > 0
            THEN pg \o " primarily covers " \o Join(contentTypes, ", ")
                 \o ". Example text: " \o Q \o snippet \o Q \o " "
                 \o (IF riskLevel = "high"
                     THEN "This page contains important provisions that could significantly impact your rights and obligations. Pay careful attention to these terms as they may affect your financial exposure or legal options."
                     ELSE IF riskLevel = "medium"
                     THEN "This page contains terms that require attention and understanding. While not immediately high-risk, these provisions could affect your costs, responsibilities, or procedures under the agreement."
                     ELSE "This page contains routine provisions that follow standard practices. These terms are generally administrative or procedural in nature.")
            ELSE IF IncludesAny(words, {"definition", "means", "include"})
            THEN pg \o " appears to contain definitions and explanatory content that establishes the framework for understanding the rest of the document."
            ELSE IF IncludesAny(words, {"party", "agreement", "contract"})
            THEN pg \o " contains general agreement terms and structural provisions that establish the basic framework of the relationship between the parties."
            ELSE pg \o " contains substantive provisions of the agreement. The specific terms on this page contribute to the overall rights, obligations, and procedures established by this document."
        \* the order of the pushes: payment, liability, arbitration,
        \* termination, confidentiality, intellectual property
        specific ==
            PickSeq(<<hasPayment, hasLiability, hasArbitration, hasTermination,
                      hasConfidential, hasIntellectual>>,
                    <<[type |-> "medium", title |-> "Payment and Financial Terms"],
                      [type |-> "high", title |-> "Liability and Risk Allocation"],
                      [type |-> "high", title |-> "Dispute Resolution"],
                      [type |-> "medium", title |-> "Termination and Exit Procedures"],
                      [type |-> "medium", title |-> "Confidentiality Requirements"],
                      [type |-> "medium", title |-> "Intellectual Property Rights"]>>)
        keyPoints ==
            IF Len(specific) > 0 THEN specific
            ELSE IF pageNumber = 1
            THEN <<[type |-> "info", title |-> "Document Introduction"]>>
            ELSE <<[type |-> "info", title |-> "General Provisions"]>>
    IN  [pageNumber |-> pageNumber,
         text       |-> pageText,
         summary    |-> summary,
         keyPoints  |-> keyPoints,
         riskLevel  |-> riskLevel]

\* C17 mutant: the loop without its check for pages with very little content
AnalyzeEveryPage(pageTexts, language) ==
    [i \in 1..Len(pageTexts) |-> analyzePageContent(pageTexts[i], i, language)]

\* the second loop of extractAndAnalyzePages
AnalyzePageTexts(pageTexts, language) ==
    LET \* the entry of a page with fewer than MinimalPageChars characters
        MinimalPage(pageText, pageNum) ==
            [pageNumber |-> pageNum,
             text       |-> pageText,
             summary    |-> "Page " \o ToString(pageNum)
                            \o " contains minimal text content.",
             keyPoints  |-> <<>>,
             riskLevel  |-> "low"]
    IN  [i \in 1..Len(pageTexts) |->
            IF Len(Trim(pageTexts[i])) < MinimalPageChars
            THEN MinimalPage(pageTexts[i], i)
            ELSE analyzePageContent(pageTexts[i], i, language)]

(***************************************************************************)
(* PDFVisualCanvas: the effect that renders the pages of the file into the *)
(* container.  Every change of file or segments cleans the running effect  *)
(* up and runs it again; a run of initPDF goes on from await to await, and *)
(* several runs can be between their awaits at once.                       *)
(***************************************************************************)
MaxRuns == 3
Runs == 1..MaxRuns

\* a run of the effect that has not started
IdleRun == [pc |-> "idle", cancelled |-> FALSE, numPages |-> 0, pageNum |-> 0,
            pageData |-> 0, sets |-> 0]

\* the component before its first effect: useState(true), useState(null),
\* useState([]), an empty container and pdfjs = null
MountedCanvas ==
    [pdfjs     |-> FALSE,
     latest    |-> 0,
     runs      |-> [r \in Runs |-> IdleRun],
     container |-> <<>>,
     loading   |-> TRUE,
     error     |-> 0,
     pages     |-> [run |-> 0, count |-> 0]]

(***************************************************************************)
(* The tail of the two handlers.                                           *)
(***************************************************************************)
\* step 6 of handler: segments, pageAnalysis and the clauses' pages
FinishAnalyze(r, segs, pages) ==
    LET \* clause.page of a clause without one; x / 0 is Infinity, so every
        \* clause of a result without page analyses lands on page 1
        PageFor(index, nClauses, nPages) ==
            IF nPages = 0 THEN 1
            ELSE (index \div Max(1, nClauses \div nPages)) + 1
    IN  [r EXCEPT !.segmentsDefined = TRUE,
                  !.segments = segs,
                  !.pageAnalysisDefined = TRUE,
                  !.pageAnalysis = pages,
                  !.clauses = [i \in DOMAIN r.clauses |->
                      IF r.clauses[i].page = 0
                      THEN [r.clauses[i] EXCEPT
                               !.page = PageFor(i - 1, Len(r.clauses), Len(pages))]
                      ELSE r.clauses[i]]]

\* the mock segments POST adds for the visual canvas
PlaceholderSegments(clauses) ==
    [n \in 1..Len(clauses) |->
        [id     |-> "fallback-" \o ToString(n - 1),
         page   |-> 1,
         bbox   |-> [x |-> 50, y |-> 100 + (n - 1) * 150, w |-> 900, h |-> 100],
         text   |-> Slice(clauses[n].original, 0, 100) \o "...",
         risk   |-> clauses[n].risk,
         simple |-> clauses[n].simple]]

\* ai.clauses.map and clause.original.slice throw a TypeError on a value
\* that is no clause array
PlaceholdersThrow(r) ==
    \/ r.shape # "object"
    \/ r.clausesKind # "array"
    \/ \E i \in DOMAIN r.clauses : r.clauses[i].original = Undef

\* analyzeWithGemini of analyze-text after generateContent returned the
\* output o stands for
TextAnalysisFrom(o, text, language) ==
    IF o.plain.ok THEN ResultOf(o.plain.val)
    ELSE generateMockAnalysis(text, language)

(***************************************************************************)
(* The request inputs and the deployments.                                 *)
(***************************************************************************)
SupportedLanguages == {"en", "hi", "hinglish"}
LanguageInputs == {"hi", "fr", Undef}

Uploads == {[hasFile |-> TRUE, file |-> d] : d \in Docs}
           \cup {[hasFile |-> FALSE, file |-> EmptyDoc]}

\* the bodies posted to analyze-text: no JSON, or an object whose text may
\* be absent or empty
Bodies ==
    LET TextInputs == {ClientText(d) : d \in Docs} \cup {"", Undef}
    IN  {[valid |-> FALSE, text |-> Undef, language |-> Undef]}
        \cup {[valid |-> TRUE, text |-> t, language |-> l] :
                  t \in TextInputs, l \in LanguageInputs}

\* bodySchema.parse: text a string of at least one character, language one
\* of the enum or absent
bodySchema(body) ==
    /\ body.text # Undef
    /\ Len(body.text) >= 1
    /\ body.language \in SupportedLanguages \cup {Undef}

\* guarded: the build of pages/api/analyze that checks for credentials;
\* projectId, credentials, processor: whether GCP_PROJECT_ID, the service
\* account and DOC_AI_PROCESSOR_ID are configured
Deployments ==
    {[guarded |-> FALSE, projectId |-> TRUE, credentials |-> TRUE, processor |-> TRUE],
     [guarded |-> FALSE, projectId |-> FALSE, credentials |-> FALSE, processor |-> FALSE],
     [guarded |-> TRUE, projectId |-> FALSE, credentials |-> FALSE, processor |-> FALSE],
     [guarded |-> TRUE, projectId |-> TRUE, credentials |-> FALSE, processor |-> TRUE],
     [guarded |-> TRUE, projectId |-> TRUE, credentials |-> TRUE, processor |-> TRUE],
     [guarded |-> TRUE, projectId |-> TRUE, credentials |-> TRUE, processor |-> FALSE]}

NoResult ==
    [shape |-> "none", summary |-> Undef, overallRisk |-> Undef,
     language |-> Undef, clausesKind |-> "undefined", clauses |-> <<>>,
     segmentsDefined |-> FALSE, segments |-> <<>>,
     pageAnalysisDefined |-> FALSE, pageAnalysis |-> <<>>]
NoRequest ==
    [route |-> "none", method |-> "none", hasFile |-> FALSE, file |-> EmptyDoc,
     text |-> Undef, language |-> Undef, validJson |-> FALSE]
NoResponse == [status |-> 0, kind |-> "none"]
NoRedaction == [input |-> "", output |-> "", outcome |-> "none"]

(***************************************************************************)
(* The state: one request at a time goes through one of the two handlers,  *)
(* one step for every call the handler awaits.                             *)
(***************************************************************************)
VARIABLES
    deployment,     \* the configuration the process started with
    pc,             \* where the handler is
    request,        \* the request being handled
    language,       \* const language of the handler
    rawText,        \* let rawText of handler; text of POST
    lineSegments,   \* lineSegments of handler
    segIdx,         \* the segment the redaction loop is at
    segments,       \* let segments of handler
    pageAnalysis,   \* const pageAnalysis of handler
    cleanText,      \* const cleanText of handler; redacted of POST
    result,         \* const result of handler; ai of POST
    response,       \* what the caller gets
    tried,          \* history: the extractors called and whether each gave a text
    labelRaw,       \* history: what the labeling generation call returned
    canvas,         \* the visual canvas of the browser: its runs and its state
    lastRedaction,  \* history: the last redaction call and how it ended
    builtFrom,      \* history: the text the result's clauses were cut from
    genRaw,         \* history: what the analysis generation call returned
    producer        \* history: "parsed", "fallback" or "heuristic"

vars == <<deployment, pc, request, language, rawText, lineSegments, segIdx,
          segments, pageAnalysis, cleanText, result, response, tried,
          labelRaw, canvas, lastRedaction, builtFrom, genRaw, producer>>

\* hasCredentials and MOCK_MODE of the guarded pages/api/analyze
hasCredentials == deployment.projectId /\ deployment.credentials
MOCK_MODE == deployment.guarded /\ ~hasCredentials
\* MOCK_MODE of analyze-text
TEXT_MOCK_MODE == ~deployment.projectId

Init ==
    /\ deployment \in Deployments
    /\ pc = "idle"
    /\ request = NoRequest
    /\ language = Undef
    /\ rawText = ""
    /\ lineSegments = <<>>
    /\ segIdx = 0
    /\ segments = <<>>
    /\ pageAnalysis = <<>>
    /\ cleanText = ""
    /\ result = NoResult
    /\ response = NoResponse
    /\ tried = <<>>
    /\ labelRaw = Undef
    /\ canvas = MountedCanvas
    /\ lastRedaction = NoRedaction
    /\ builtFrom = Undef
    /\ genRaw = Undef
    /\ producer = "none"

Reply(status, kind) ==
    /\ response' = [status |-> status, kind |-> kind]
    /\ pc' = "done"

\* handler of pages/api/analyze up to the first capability call
ReceiveUpload ==
    /\ pc = "idle"
    /\ \E m \in {"POST", "GET"}, l \in LanguageInputs, f \in Uploads :
        /\ request' = [route |-> "analyze", method |-> m, hasFile |-> f.hasFile,
                       file |-> f.file, text |-> Undef, language |-> l,
                       validJson |-> TRUE]
        /\ IF m # "POST"
           THEN Reply(405, "error") /\ UNCHANGED language
           ELSE IF ~f.hasFile
           THEN Reply(400, "error") /\ UNCHANGED language
           ELSE /\ language' = (IF l = Undef THEN "en" ELSE l)
                /\ pc' = (IF MOCK_MODE THEN "mock" ELSE "docai")
                /\ UNCHANGED response
    /\ UNCHANGED <<deployment, canvas, labelRaw, tried, rawText, lineSegments, segIdx, segments,
                   pageAnalysis, cleanText, result, lastRedaction, builtFrom,
                   genRaw, producer>>

\* the MOCK_MODE branch of the guarded handler; a throw of pdf-parse goes to
\* the catch of handler
MockBranch ==
    /\ pc = "mock"
    /\ \E parsed \in BOOLEAN :
        /\ tried' = Append(tried, [extractor |-> "plain", text |-> parsed])
        /\ IF ~parsed
           THEN Reply(500, "error")
                /\ UNCHANGED <<rawText, result, builtFrom, producer>>
           ELSE /\ rawText' = PdfParseText(request.file)
                /\ IF Trim(rawText') = ""
                   THEN Reply(422, "error")
                        /\ UNCHANGED <<result, builtFrom, producer>>
                   ELSE /\ result' = generateMockAnalysis(rawText', language)
                        /\ builtFrom' = rawText'
                        /\ producer' = "heuristic"
                        /\ Reply(200, "result")
    /\ UNCHANGED <<deployment, canvas, labelRaw, request, language, lineSegments, segIdx,
                   segments, pageAnalysis, cleanText, lastRedaction, genRaw>>

\* step 1: extractLineSegmentsWithDocAI; a throw goes to the pdf-parse fallback
ExtractLineSegmentsWithDocAI ==
    /\ pc = "docai"
    /\ LET \* r is what extractLineSegmentsWithDocAI returned
           LineSegmentsExtracted(r) ==
               /\ tried' = Append(tried, [extractor |-> "layout", text |-> TRUE])
               /\ rawText' = r.text
               /\ lineSegments' = r.segments
               /\ segIdx' = 1
               /\ pc' = (IF Len(r.segments) = 0 THEN "label" ELSE "redactSegment")
       IN  \E outcome \in {"document", "notext", "error"} :
               IF (deployment.guarded /\ ~deployment.processor)
                  \/ outcome # "document"
               THEN /\ pc' = "pdfparse"
                    /\ tried' = Append(tried, [extractor |-> "layout",
                                               text |-> FALSE])
                    /\ UNCHANGED <<rawText, lineSegments, segIdx>>
               ELSE LineSegmentsExtracted(
                        extractLineSegments(DocAiDocument(request.file)))
    /\ UNCHANGED <<deployment, canvas, labelRaw, request, language, segments, pageAnalysis,
                   cleanText, result, response, lastRedaction, builtFrom,
                   genRaw, producer>>

\* step 2: one turn of the loop that redacts the segments
RedactSegment ==
    /\ pc = "redactSegment"
    /\ \E outcome \in DlpOutcomes :
        /\ lineSegments' = [lineSegments EXCEPT
                               ![segIdx].text = redactWithDLP(@, TRUE, outcome)]
        /\ lastRedaction' = [input |-> lineSegments[segIdx].text,
                             output |-> lineSegments'[segIdx].text,
                             outcome |-> outcome]
    /\ segIdx' = segIdx + 1
    /\ pc' = (IF segIdx = Len(lineSegments) THEN "label" ELSE "redactSegment")
    /\ UNCHANGED <<deployment, canvas, labelRaw, tried, request, language, rawText, segments,
                   pageAnalysis, cleanText, result, response, builtFrom,
                   genRaw, producer>>

\* step 3: labelSegmentsWithGemini
LabelSegments ==
    /\ pc = "label"
    /\ \E outcome \in LabelOutputs \cup {GenerationError} :
        /\ labelRaw' = outcome
        /\ segments' = labelSegmentsWithGemini(lineSegments, language, outcome)
    /\ pc' = "pages"
    /\ UNCHANGED <<deployment, canvas, tried, request, language, rawText, lineSegments, segIdx,
                   pageAnalysis, cleanText, result, response, lastRedaction,
                   builtFrom, genRaw, producer>>

\* the catch of steps 1-3: pdf-parse; its throw goes to the catch of handler
PdfParseFallback ==
    /\ pc = "pdfparse"
    /\ \E parsed \in BOOLEAN :
        /\ tried' = Append(tried, [extractor |-> "plain", text |-> parsed])
        /\ IF parsed
           THEN /\ rawText' = PdfParseText(request.file)
                /\ pc' = "pages"
                /\ UNCHANGED response
           ELSE Reply(500, "error") /\ UNCHANGED rawText
    /\ UNCHANGED <<deployment, canvas, labelRaw, request, language, lineSegments, segIdx, segments,
                   pageAnalysis, cleanText, result, lastRedaction, builtFrom,
                   genRaw, producer>>

\* the blank-text check and step 4: extractAndAnalyzePages.  The page
\* extraction throws as a whole, or the extraction of at most one page throws
ExtractAndAnalyzePages ==
    /\ pc = "pages"
    /\ IF Trim(rawText) = ""
       THEN Reply(422, "error") /\ UNCHANGED pageAnalysis
       ELSE /\ \E o \in {[whole |-> TRUE, failed |-> {}]}
                        \cup {[whole |-> FALSE, failed |-> f] :
                                f \in {{}} \cup {{k} : k \in 1..Len(request.file.pages)}} :
                pageAnalysis' =
                    IF o.whole THEN <<>>
                    ELSE AnalyzePageTexts(PageTextsOf(request.file, o.failed),
                                          language)
            /\ pc' = "redact"
            /\ UNCHANGED response
    /\ UNCHANGED <<deployment, canvas, labelRaw, tried, request, language, rawText, lineSegments, segIdx,
                   segments, cleanText, result, lastRedaction, builtFrom,
                   genRaw, producer>>

\* step 5, first half: redactWithDLP(rawText)
RedactMain ==
    /\ pc = "redact"
    /\ \E outcome \in DlpOutcomes :
        /\ cleanText' = redactWithDLP(rawText, TRUE, outcome)
        /\ lastRedaction' = [input |-> rawText, output |-> cleanText',
                             outcome |-> outcome]
    /\ pc' = "generate"
    /\ UNCHANGED <<deployment, canvas, labelRaw, tried, request, language, rawText, lineSegments, segIdx,
                   segments, pageAnalysis, result, response, builtFrom, genRaw,
                   producer>>

\* step 5, second half, and step 6: analyzeWithGemini and the reply; a throw
\* of generateContent goes to the catch of handler
AnalyzeWithGemini ==
    /\ pc = "generate"
    /\ LET \* result.segments = ... and result.clauses.forEach throw a
           \* TypeError, which the catch of handler answers
           FinishThrows(r) == r.shape # "object" \/ r.clausesKind = "other"
           \* step 6 and the reply; r is what analyzeWithGemini returned
           AnalyzeReply(parsed, r) ==
               /\ producer' = (IF parsed THEN "parsed" ELSE "fallback")
               /\ builtFrom' = (IF parsed THEN Undef ELSE cleanText)
               /\ IF FinishThrows(r)
                  THEN Reply(500, "error") /\ result' = r
                  ELSE Reply(200, "result")
                       /\ result' = FinishAnalyze(r, segments, pageAnalysis)
           AnalyzeOutput(o) ==
               AnalyzeReply(o.cleaned.ok, GeminiAnalysisFrom(o, cleanText, language))
       IN  \E raw \in GenOutputs \cup {GenerationError} :
               /\ genRaw' = raw
               /\ IF raw = GenerationError
                  THEN Reply(500, "error")
                       /\ UNCHANGED <<result, builtFrom, producer>>
                  ELSE AnalyzeOutput(GeneratedOutputs[raw])
    /\ UNCHANGED <<deployment, canvas, labelRaw, tried, request, language, rawText, lineSegments, segIdx,
                   segments, pageAnalysis, cleanText, lastRedaction>>

\* POST of analyze-text up to the first capability call
ReceiveText ==
    /\ pc = "idle"
    /\ \E body \in Bodies :
        /\ request' = [route |-> "analyze-text", method |-> "POST",
                       hasFile |-> FALSE, file |-> EmptyDoc, text |-> body.text,
                       language |-> body.language, validJson |-> body.valid]
        /\ IF ~body.valid
           THEN Reply(400, "error") /\ UNCHANGED <<language, rawText>>
           ELSE IF ~bodySchema(body)
           THEN Reply(500, "exception") /\ UNCHANGED <<language, rawText>>
           ELSE IF Trim(body.text) = ""
           THEN Reply(400, "error") /\ UNCHANGED <<language, rawText>>
           ELSE /\ language' = (IF body.language = Undef THEN "en" ELSE body.language)
                /\ rawText' = body.text
                /\ pc' = "redactText"
                /\ UNCHANGED response
    /\ UNCHANGED <<deployment, canvas, labelRaw, tried, lineSegments, segIdx, segments, pageAnalysis,
                   cleanText, result, lastRedaction, builtFrom, genRaw, producer>>

\* the try/catch around redactPIIWithDLP
RedactText ==
    /\ pc = "redactText"
    /\ \E outcome \in (IF TEXT_MOCK_MODE THEN {"regex"} ELSE DlpOutcomes) :
        /\ cleanText' = redactPIIWithDLP(rawText, TEXT_MOCK_MODE, outcome)
        /\ lastRedaction' = [input |-> rawText, output |-> cleanText',
                             outcome |-> outcome]
    /\ pc' = "analyzeText"
    /\ UNCHANGED <<deployment, canvas, labelRaw, tried, request, language, rawText, lineSegments, segIdx,
                   segments, pageAnalysis, result, response, builtFrom, genRaw,
                   producer>>

\* the try/catch around analyzeWithGemini, the mock segments and the reply:
\* in mock mode there is no generation call (raw is Undef); when the call
\* throws, the catch analyzes the text as it was posted
AnalyzeText ==
    /\ pc = "analyzeText"
    /\ LET \* the mock segments and the reply; ai is the analysis, source the
           \* text its clauses were cut from
           TextReply(parsed, source, ai) ==
               /\ producer' = (IF parsed THEN "parsed" ELSE "heuristic")
               /\ builtFrom' = (IF parsed THEN Undef ELSE source)
               /\ IF PlaceholdersThrow(ai)
                  THEN Reply(500, "exception") /\ result' = ai
                  ELSE Reply(200, "result")
                       /\ result' = [ai EXCEPT
                                        !.segmentsDefined = TRUE,
                                        !.segments = PlaceholderSegments(ai.clauses)]
           TextOutput(o) ==
               TextReply(o.plain.ok, cleanText,
                         TextAnalysisFrom(o, cleanText, language))
       IN  \E raw \in (IF TEXT_MOCK_MODE THEN {Undef}
                       ELSE GenOutputs \cup {GenerationError}) :
               /\ genRaw' = raw
               /\ IF raw \in {Undef, GenerationError}
                  THEN TextReply(FALSE, IF raw = Undef THEN cleanText ELSE rawText,
                                 generateMockAnalysis(IF raw = Undef THEN cleanText
                                                      ELSE rawText, language))
                  ELSE TextOutput(GeneratedOutputs[raw])
    /\ UNCHANGED <<deployment, canvas, labelRaw, tried, request, language, rawText, lineSegments, segIdx,
                   segments, pageAnalysis, cleanText, lastRedaction>>

\* The handler stands at a call of Document AI, DLP or Vertex AI: the
\* guarded extractLineSegmentsWithDocAI throws before its call when no
\* processor is configured, and analyze-text calls nothing in mock mode
CapabilityCall ==
    \/ pc = "docai" /\ ~(deployment.guarded /\ ~deployment.processor)
    \/ pc \in {"redactSegment", "label", "redact", "generate"}
    \/ pc \in {"redactText", "analyzeText"} /\ ~TEXT_MOCK_MODE

\* The handlers await every capability call without a timeout: when the
\* promise of docai.processDocument, dlp.deidentifyContent or
\* generateContent never settles, the handler stays suspended at its await
CapabilityNeverReturns ==
    /\ CapabilityCall
    /\ pc' = "awaiting"
    /\ UNCHANGED <<deployment, canvas, labelRaw, tried, request, language, rawText, lineSegments, segIdx,
                   segments, pageAnalysis, cleanText, result, response,
                   lastRedaction, builtFrom, genRaw, producer>>

\* the next request finds nothing of this one
NextRequest ==
    /\ pc = "done"
    /\ pc' = "idle"
    /\ request' = NoRequest
    /\ language' = Undef
    /\ rawText' = ""
    /\ lineSegments' = <<>>
    /\ segIdx' = 0
    /\ segments' = <<>>
    /\ pageAnalysis' = <<>>
    /\ cleanText' = ""
    /\ result' = NoResult
    /\ response' = NoResponse
    /\ tried' = <<>>
    /\ labelRaw' = Undef
    /\ lastRedaction' = NoRedaction
    /\ builtFrom' = Undef
    /\ genRaw' = Undef
    /\ producer' = "none"
    /\ UNCHANGED <<deployment, canvas>>

Next ==
    \/ ReceiveUpload
    \/ MockBranch
    \/ ExtractLineSegmentsWithDocAI
    \/ RedactSegment
    \/ LabelSegments
    \/ PdfParseFallback
    \/ ExtractAndAnalyzePages
    \/ RedactMain
    \/ AnalyzeWithGemini
    \/ ReceiveText
    \/ RedactText
    \/ AnalyzeText
    \/ CapabilityNeverReturns
    \/ NextRequest

Spec == Init /\ [][Next]_vars

\* The continuation of a handler runs once the call it awaits has settled.
\* Awaiting is where a handler stands between two steps; HandlerStep is any
\* step that moves it on from there (every action of a handler changes pc
\* or segIdx) other than the call hanging.  Nothing makes a request arrive
\* or a capability hang.
Awaiting ==
    {"mock", "docai", "redactSegment", "label", "pdfparse", "pages", "redact",
     "generate", "redactText", "analyzeText"}

HandlerStep ==
    /\ pc \in Awaiting
    /\ pc' \in Awaiting \cup {"done"}
    /\ segIdx' \in {segIdx, segIdx + 1}

LiveSpec == Spec /\ WF_<<pc, segIdx>>(HandlerStep)

(***************************************************************************)
(* The regex fallback redactor on its own: it is applied to a text, and    *)
(* then to its own output, as happens when a redacted text is redacted     *)
(* again.  The texts are built from pieces that match the three patterns   *)
(* and pieces that nearly do.                                              *)
(***************************************************************************)
MaxPieces == 3

RedactorInputs ==
    LET Pieces == {"bob@corp.io", "555-123-4567", "123-45-6789",
                   "@", ".", "-", "7", "x", " "}
    IN  {Join(pieces, "") :
            pieces \in UNION {[1..n -> Pieces] : n \in 0..MaxPieces}}

\* the text a caller hands to the redactor
RedactorInput ==
    /\ pc = "idle"
    /\ rawText' \in RedactorInputs
    /\ pc' = "input"
    /\ UNCHANGED <<deployment, request, language, lineSegments, segIdx,
                   segments, pageAnalysis, cleanText, result, response, tried, labelRaw, canvas,
                   lastRedaction, builtFrom, genRaw, producer>>

\* the three replaces of redactPIIWithDLP in mock mode
RedactOnce ==
    /\ pc = "input"
    /\ cleanText' = RegexRedact(rawText)
    /\ pc' = "once"
    /\ UNCHANGED <<deployment, request, language, rawText, lineSegments, segIdx,
                   segments, pageAnalysis, result, response, tried, labelRaw, canvas,
                   lastRedaction, builtFrom, genRaw, producer>>

\* and again, on its own output
RedactAgain ==
    /\ pc = "once"
    /\ lastRedaction' = [input |-> cleanText,
                         output |-> RegexRedact(cleanText),
                         outcome |-> "regex"]
    /\ pc' = "twice"
    /\ UNCHANGED <<deployment, request, language, rawText, lineSegments, segIdx,
                   segments, pageAnalysis, cleanText, result, response, tried, labelRaw, canvas,
                   builtFrom, genRaw, producer>>

\* the process runs without GCP_PROJECT_ID, where the regex redactor is used
RedactorInit == Init /\ TEXT_MOCK_MODE

RedactorSpec ==
    RedactorInit /\ [][RedactorInput \/ RedactOnce \/ RedactAgain]_vars

(***************************************************************************)
(* The runs of the effect of PDFVisualCanvas.  One action for each stretch *)
(* of initPDF between two awaits: the stretch runs without interruption,   *)
(* and between two stretches any other run, or the next effect, can act.   *)
(***************************************************************************)
\* the server-side variables, which the browser leaves alone
handlerVars == <<deployment, pc, request, language, rawText, lineSegments, segIdx,
                 segments, pageAnalysis, cleanText, result, response, tried,
                 labelRaw, lastRedaction, builtFrom, genRaw, producer>>

\* file or segments changed (or the component mounted): the cleanup of the
\* running effect sets its cancelled and empties the container, then the
\* effect runs again and calls initPDF, which goes to its first await
RunEffect ==
    /\ canvas.latest < MaxRuns
    /\ \E n \in 1..MaxPages :
        LET old     == canvas.latest
            new     == old + 1
            cleaned == IF old = 0 THEN canvas.runs
                       ELSE [canvas.runs EXCEPT ![old].cancelled = TRUE]
        IN  canvas' = [canvas EXCEPT
                !.latest = new,
                !.container = <<>>,
                !.loading = TRUE,
                !.error = 0,
                !.runs = [cleaned EXCEPT
                    ![new] = [pc |-> IF canvas.pdfjs THEN "arrayBuffer" ELSE "import",
                              cancelled |-> FALSE, numPages |-> n, pageNum |-> 0,
                              pageData |-> 0, sets |-> 2]]]
    /\ UNCHANGED handlerVars

\* pdfjs = await import('pdfjs-dist')
ImportDone ==
    /\ \E r \in Runs :
        /\ canvas.runs[r].pc = "import"
        /\ canvas' = [canvas EXCEPT !.pdfjs = TRUE, !.runs[r].pc = "arrayBuffer"]
    /\ UNCHANGED handlerVars

\* await file.arrayBuffer()
BufferDone ==
    /\ \E r \in Runs :
        /\ canvas.runs[r].pc = "arrayBuffer"
        /\ canvas' = [canvas EXCEPT !.runs[r].pc = "getDocument"]
    /\ UNCHANGED handlerVars

\* await pdfjs.getDocument(...).promise, then if (cancelled) return, the
\* clearing of the container and the head of the loop for page 1
DocumentDone ==
    /\ \E r \in Runs :
        /\ canvas.runs[r].pc = "getDocument"
        /\ canvas' = IF canvas.runs[r].cancelled
                     THEN [canvas EXCEPT !.runs[r].pc = "returned"]
                     ELSE [canvas EXCEPT !.container = <<>>,
                                         !.runs[r].pageNum = 1,
                                         !.runs[r].pc = "getPage"]
    /\ UNCHANGED handlerVars

\* await pdf.getPage(pageNum)
PageDone ==
    /\ \E r \in Runs :
        /\ canvas.runs[r].pc = "getPage"
        /\ canvas' = [canvas EXCEPT !.runs[r].pc = "render"]
    /\ UNCHANGED handlerVars

\* await page.render(...).promise, then pageData.push, appendChild, and the
\* head of the loop for the next page; after the loop, by its condition or
\* by the break, setPages(pageData) and setLoading(false)
RenderDone ==
    /\ \E r \in Runs :
        LET run      == canvas.runs[r]
            appended == [canvas EXCEPT
                            !.container = Append(@, [run |-> r, num |-> run.pageNum]),
                            !.runs[r].pageData = @ + 1,
                            !.runs[r].pageNum = @ + 1]
        IN  /\ run.pc = "render"
            /\ canvas' = IF run.pageNum + 1 <= run.numPages /\ ~run.cancelled
                         THEN [appended EXCEPT !.runs[r].pc = "getPage"]
                         ELSE [appended EXCEPT
                                  !.pages = [run |-> r, count |-> run.pageData + 1],
                                  !.loading = FALSE,
                                  !.runs[r].sets = @ + 2,
                                  !.runs[r].pc = "returned"]
    /\ UNCHANGED handlerVars

\* an await of initPDF rejects: the catch calls setError and setLoading(false)
RenderingFails ==
    /\ \E r \in Runs :
        /\ canvas.runs[r].pc \in {"import", "arrayBuffer", "getDocument",
                                  "getPage", "render"}
        /\ canvas' = [canvas EXCEPT !.error = r,
                                    !.loading = FALSE,
                                    !.runs[r].sets = @ + 2,
                                    !.runs[r].pc = "returned"]
    /\ UNCHANGED handlerVars

CanvasInit == Init /\ deployment.guarded /\ hasCredentials /\ deployment.processor

CanvasSpec ==
    CanvasInit /\ [][RunEffect \/ ImportDone \/ BufferDone \/ DocumentDone
                     \/ PageDone \/ RenderDone \/ RenderingFails]_vars

(***************************************************************************)
(* The properties.                                                         *)
(***************************************************************************)
\* the handler has replied with an AnalysisResult
Returned == pc = "done" /\ response.kind = "result"

RiskRank(risk) ==
    CASE risk = "high" -> 3 [] risk = "medium" -> 2 [] risk = "low" -> 1 [] OTHER -> 0

\* the highest risk among the clauses under low < medium < high, low for none
HighestRisk(clauses) ==
    IF \E i \in DOMAIN clauses : RiskRank(clauses[i].risk) = 3 THEN "high"
    ELSE IF \E i \in DOMAIN clauses : RiskRank(clauses[i].risk) = 2 THEN "medium"
    ELSE "low"

\* C1: every AnalysisResult returned for an uploaded document of N pages
\* carries a pageAnalysis list of exactly N entries whose pageNumber values
\* are 1..N, each once, also when the extraction of single pages failed.
PageCoverage ==
    (Returned /\ request.route = "analyze") =>
        /\ result.pageAnalysisDefined
        /\ Len(result.pageAnalysis) = Len(request.file.pages)
        /\ \A k \in DOMAIN result.pageAnalysis :
              result.pageAnalysis[k].pageNumber = k

\* C2: every returned AnalysisResult, whether parsed from a generation
\* output, built by the parse-failure fallback or by the heuristic engine,
\* has overallRisk equal to the highest risk among its clauses, and low when
\* it has no clauses.
OverallRiskIsHighest ==
    Returned => result.overallRisk = HighestRisk(result.clauses)

\* C3: whenever a result is returned and the extraction produced no
\* segments (the layout extraction failed or found none, or the text-only
\* path was taken), the result's segments are exactly one placeholder
\* segment per clause.
PlaceholdersWhenNoSegments ==
    (Returned /\ (request.route = "analyze-text" \/ segments = <<>>)) =>
        /\ result.segmentsDefined
        /\ Len(result.segments) = Len(result.clauses)

\* C4: once non-blank text has been extracted from an upload, the request
\* ends in a returned AnalysisResult and never in an error response,
\* whatever the redaction, labeling and generation capabilities do.
OnlyExtractionFails ==
    (pc = "done" /\ request.route = "analyze" /\ Trim(rawText) # "") =>
        response.kind = "result"

\* C5: whenever a call of the delegated redaction capability raised an
\* error, the text passed on is the output of the regex redactor on the
\* call's input.
RegexRedactionOnError ==
    lastRedaction.outcome = "error" =>
        lastRedaction.output = Redactions[lastRedaction.input].regex

\* C6: for every output the generation capability returned to an analysis
\* call, the request ends in a returned result with a non-empty summary and
\* at least one clause, and no exception escapes.
NeverEmptyNeverThrows ==
    (pc = "done" /\ genRaw \in GenOutputs) =>
        /\ response.kind = "result"
        /\ result.summary \notin {Undef, ""}
        /\ Len(result.clauses) >= 1

\* C7: every result of the fallback heuristic engine has at least 4 clauses.
HeuristicHasFourClauses ==
    (Returned /\ producer = "heuristic") => Len(result.clauses) >= MinClauses

\* C8: when the generation output is a well-formed JSON object that lacks
\* only its final closing brace and carries a summary of more than 50
\* characters, the upload handler returns the parsed object with that
\* summary, not the fallback result.
BraceRepairParses ==
    (pc = "done" /\ request.route = "analyze" /\ genRaw \in CutOutputs) =>
        /\ response.kind = "result"
        /\ producer = "parsed"
        /\ result.summary = LongSummary

\* C9: in every returned result whose clauses were cut from the document
\* text, that text is a redacted text: the output of the regex redactor or
\* of the delegated redaction capability on the extracted text.
ClausesFromRedactedText ==
    (Returned /\ builtFrom # Undef) =>
        builtFrom \in {Redactions[rawText].regex, Redactions[rawText].value}

\* C10: no AnalysisResult is returned for a request whose language value is
\* not one of the supported codes en, hi, hinglish.
UnsupportedLanguageRejected ==
    Returned => request.language \in SupportedLanguages \cup {Undef}


\* C11: every analysis request eventually ends with a response, a result or
\* an error, even when a capability call never returns.
EveryRequestEnds == (pc # "idle") ~> (pc = "done")

\* whether a text has a character that is no white space
NonBlank(text) == \E i \in 0..(Len(text) - 1) : CharAt(text, i) \notin WhiteSpace

\* C12: a result is returned only when some extraction path gave non-blank
\* text; after the layout extractor failed the plain-text extractor is
\* called next; and while no extractor gave a text, or the text is blank,
\* no page analysis, full-text redaction or document analysis has been
\* invoked and the request can only end with an error.
ExtractionGate ==
    /\ Returned =>
          /\ NonBlank(rawText)
          /\ request.route = "analyze" => \E i \in DOMAIN tried : tried[i].text
    /\ (/\ tried # <<>>
        /\ tried[1] = [extractor |-> "layout", text |-> FALSE]
        /\ pc # "pdfparse") =>
          /\ Len(tried) = 2
          /\ tried[2].extractor = "plain"
    /\ (/\ request.route = "analyze"
        /\ \/ \A i \in DOMAIN tried : ~tried[i].text
           \/ ~NonBlank(rawText)) =>
          /\ pc \notin {"redact", "generate"}
          /\ pageAnalysis = <<>> /\ cleanText = ""
          /\ genRaw = Undef /\ result = NoResult
          /\ pc = "done" => response.kind = "error"

\* C12 witness: both extractors failed and the request ended with an error
BothExtractorsFailed ==
    /\ pc = "done" /\ response.kind = "error"
    /\ Len(tried) = 2 /\ ~tried[1].text /\ ~tried[2].text

\* the unit interval [0,1] in thousandths
UnitInterval == 0..1000

\* C13: every segment of a returned result, placeholder segments included,
\* has a bounding box whose x, y, w and h each lie in [0,1].
BoxesNormalized ==
    Returned =>
        \A n \in DOMAIN result.segments :
            /\ result.segments[n].bbox.x \in UnitInterval
            /\ result.segments[n].bbox.y \in UnitInterval
            /\ result.segments[n].bbox.w \in UnitInterval
            /\ result.segments[n].bbox.h \in UnitInterval

\* C14: the regex fallback redactor is idempotent: redacting a text it has
\* already redacted gives back exactly the same text.
RegexRedactIdempotent ==
    pc = "twice" => lastRedaction.output = lastRedaction.input

\* C14 witness: a text with an email address and an ID number has been
\* redacted twice
RedactedTwice ==
    /\ pc = "twice"
    /\ rawText = "bob@corp.io 123-45-6789"
    /\ lastRedaction.input = "[EMAIL_REDACTED] [SSN_REDACTED]"

\* whether a clause has a simple and a why, each a non-empty string other
\* than its title
Complete(clause) ==
    /\ clause.simple \notin {Undef, "", clause.title}
    /\ clause.why \notin {Undef, "", clause.title}

\* every clause the tables of the engine can give: the introduction, the
\* twelve topics and the fillers of each of the seven document types
EngineTablesComplete ==
    \A docType \in {"employment", "real_estate", "loan", "purchase",
                     "partnership", "service", "general"} :
        /\ Complete([title  |-> getDocumentTitle(docType),
                     simple |-> getDocumentSimpleExplanation(docType),
                     why    |-> getDocumentWhyItMatters(docType)])
        /\ \A penalty \in BOOLEAN :
               LET patterns  == [a \in DOMAIN Keywords |-> a = "penalty" /\ penalty]
                   templates == clauseTemplates(docType, patterns)
               IN  \A area \in DOMAIN templates :
                       Complete(getClauseData(area, docType, LongSummary, 0, patterns))
        /\ \A c \in Range(getFallbackClauses(docType, LongSummary, 2)) : Complete(c)

\* C15: every clause the heuristic engine produces (introduction, topic and
\* filler clauses, of every document type and topic) has a non-empty simple
\* and a non-empty why, each different from the clause's title.
EngineClausesComplete ==
    /\ EngineTablesComplete
    /\ (Returned /\ producer = "heuristic") =>
          \A n \in DOMAIN result.clauses : Complete(result.clauses[n])

\* C15 witness: the engine returned an introduction, two topic clauses and
\* two fillers
EngineMixedClauses ==
    /\ Returned /\ producer = "heuristic"
    /\ Len(result.clauses) = 5
    /\ result.clauses[1].title = "Document Structure and Organization"
    /\ result.clauses[3].title = "Liability and Risk Allocation"
    /\ result.clauses[5].title = "Miscellaneous Provisions"

\* whether a page text holds one of the keywords kws, in any case
Mentions(text, kws) == \E k \in kws : Includes(ToLowerCase(text), k)

\* what every page text the page analyzer can be given mentions, computed
\* once
PageMentions ==
    [t \in {""} \cup UNION {{Trim(d.pages[k].text) : k \in DOMAIN d.pages} : d \in Docs} |->
        [liability |-> Mentions(t, {"liability", "responsible", "damages", "loss"}),
         disputes  |-> Mentions(t, {"arbitration", "dispute", "court"}),
         other     |-> Mentions(t, {"payment", "pay", "fee", "cost", "price",
                                    "terminate", "cancel", "end", "expire",
                                    "confidential", "non-disclosure", "secret",
                                    "intellectual", "copyright", "trademark"})]]

\* C16: a page of at least 50 characters gets riskLevel high when it holds
\* a liability or arbitration keyword, else medium when it holds a payment,
\* termination, confidentiality or intellectual-property keyword, else low;
\* and with a liability keyword its keyPoints hold the entry titled
\* 'Liability and Risk Allocation'.
PageRiskRule ==
    \A k \in DOMAIN pageAnalysis :
        LET page      == pageAnalysis[k]
            liability == PageMentions[page.text].liability
            disputes  == PageMentions[page.text].disputes
            other     == PageMentions[page.text].other
        IN  Len(Trim(page.text)) >= 50 =>
                /\ page.riskLevel = (IF liability \/ disputes THEN "high"
                                     ELSE IF other THEN "medium" ELSE "low")
                /\ liability =>
                      \E n \in DOMAIN page.keyPoints :
                          page.keyPoints[n].title = "Liability and Risk Allocation"

\* C16 witness: a page of 69 characters that mentions liability and damages
\* has been analyzed
LiabilityPageAnalyzed ==
    /\ pageAnalysis # <<>>
    /\ pageAnalysis[1].text = PiiPageText
    /\ pageAnalysis[1].riskLevel = "high"

\* C17: a page whose text is shorter than 50 characters gets riskLevel low,
\* no keyPoints and a summary that says 'minimal text content', whatever
\* keywords it holds; a page of 50 characters or more is analyzed for topics
\* (it gets a key point and another summary).
ShortPagesAreMinimal ==
    \A k \in DOMAIN pageAnalysis :
        LET page == pageAnalysis[k]
        IN  IF Len(page.text) < 50
            THEN /\ page.riskLevel = "low"
                 /\ page.keyPoints = <<>>
                 /\ Includes(page.summary, "minimal text content")
            ELSE /\ page.keyPoints # <<>>
                 /\ ~Includes(page.summary, "minimal text content")

\* C17 witness: a page of 15 characters that mentions a fee has its entry,
\* next to a page of 69 characters
ShortFeePageAnalyzed ==
    /\ Len(pageAnalysis) = 2
    /\ pageAnalysis[1].text = PiiPageText
    /\ pageAnalysis[2].text = "Late fee is due"

\* the lines of the first k pages of a document, in reading order
RECURSIVE LinesUpTo(_, _)
LinesUpTo(doc, k) ==
    IF k = 0 THEN <<>> ELSE LinesUpTo(doc, k - 1) \o doc.pages[k].lines

\* a coordinate of a vertex in thousandths, 0 when the vertex lacks it
Coordinate(vertex, axis) == IF axis \in DOMAIN vertex THEN vertex[axis] ELSE 0

\* C18: getBoundingBox returns exactly {x:0, y:0, w:1, h:0.05} for no vertex
\* list or fewer than 4 points, and for 4 points x and y of the first point
\* with w and h the difference between the third point and the first.
BoundingBoxRule ==
    lineSegments # <<>> =>
        LET lines == LinesUpTo(request.file, Len(request.file.pages))
        IN  /\ Len(lineSegments) = Len(lines)
            /\ \A n \in DOMAIN lines :
                   LET points == lines[n].vertices
                       bbox   == lineSegments[n].bbox
                   IN  IF Len(points) < 4
                       THEN bbox = [x |-> 0, y |-> 0, w |-> 1000, h |-> 50]
                       ELSE /\ bbox.x = Coordinate(points[1], "x")
                            /\ bbox.y = Coordinate(points[1], "y")
                            /\ bbox.w = Coordinate(points[3], "x") - bbox.x
                            /\ bbox.h = Coordinate(points[3], "y") - bbox.y

\* C18 witness: the boxes of a line with three points and of a line with
\* four have been computed
ThreeAndFourPoints ==
    /\ request.file = PiiDoc
    /\ Len(lineSegments) = 2
    /\ lineSegments[1].bbox = [x |-> 100, y |-> 100, w |-> 800, h |-> 50]
    /\ lineSegments[2].bbox = [x |-> 0, y |-> 0, w |-> 1000, h |-> 50]

\* C19: when GCP_PROJECT_ID is not set no request invokes a delegated
\* capability, and every result comes from the deterministic fallback
\* paths (the regex redactor and the heuristic engine).
MockModeCallsNothing ==
    ~deployment.projectId =>
        /\ ~CapabilityCall
        /\ lastRedaction.outcome \in {"none", "regex"}
        /\ Returned => producer = "heuristic"

\* what analyzeWithGemini returned for the request, before the pages were
\* assigned
BeforePages == GeminiAnalysisFrom(GeneratedOutputs[genRaw], cleanText, language)

\* the handler of the analyze route has answered after its page assignment,
\* with at least one page analysis
PagesAssigned ==
    /\ Returned
    /\ response.status = 200
    /\ request.route = "analyze"
    /\ genRaw \in GenOutputs
    /\ Len(result.pageAnalysis) >= 1

\* C20: after the page assignment, with N >= 1 page analyses, every clause
\* that lacked a page has a page p with 1 <= p <= N, and every clause that
\* carried a page keeps it.
PagesWithinDocument ==
    PagesAssigned =>
        /\ Len(result.clauses) = Len(BeforePages.clauses)
        /\ \A i \in DOMAIN result.clauses :
              IF BeforePages.clauses[i].page = 0
              THEN result.clauses[i].page \in 1..Len(result.pageAnalysis)
              ELSE result.clauses[i] = BeforePages.clauses[i]

\* C21: malformed generation output is handled in a fixed order by both
\* analyzers: an output whose repaired text parses is answered from the
\* parse; otherwise a salvaged summary of more than 50 characters is kept;
\* otherwise a fixed generic summary is returned with exactly one 'Document
\* Review Required' clause of risk medium.
MalformedOutputOrder ==
    (Returned /\ genRaw \in GenOutputs) =>
        LET o == GeneratedOutputs[genRaw]
            salvaged == o.summary # Undef /\ Len(o.summary) > 50
        IN  IF o.cleaned.ok THEN producer = "parsed"
            ELSE /\ IF salvaged THEN result.summary = o.summary
                    ELSE result.summary \in {GenericSummary, DefaultSalvageSummary}
                 /\ ~salvaged =>
                        /\ Len(result.clauses) = 1
                        /\ result.clauses[1].title = ReviewClauseTitle
                        /\ result.clauses[1].risk = "medium"

\* the explanation of a segment the failed labeling call left without one
ReviewExplanation == "Legal text requiring review."

\* C22: when the labeling call throws or returns output that cannot be
\* parsed, every segment of the batch is returned, with risk low and the
\* generic 'requires review' explanation.
LabelingFallback ==
    labelRaw \in {GenerationError, BrokenLabels} =>
        /\ Len(segments) = Min(Len(lineSegments), MaxLabeledSegments)
        /\ \A n \in DOMAIN segments :
              /\ segments[n].risk = "low"
              /\ segments[n].simple = ReviewExplanation

\* RiskLevel
RiskLevels == {"low", "medium", "high"}

\* C23: every segment the labeler returns has a risk of the enumeration
\* low, medium, high, whatever labels the generation call returned.
LabeledRiskInEnum ==
    labelRaw # Undef => \A n \in DOMAIN segments : segments[n].risk \in RiskLevels

\* the indices that the labels of every labeling output carry
LabeledIndices ==
    [raw \in LabelOutputs \cup {GenerationError} |->
        LET parsed == IF raw \in {GenerationError, ""}
                      THEN [ok |-> FALSE] ELSE JSONParse(raw)
            labels == IF parsed.ok THEN JGet(parsed.val, "labels").items ELSE <<>>
        IN  {i \in 0..MaxLabeledSegments :
                \E n \in DOMAIN labels :
                    JGet(labels[n], "i") = [t |-> "lit", s |-> ToString(i)]}]

\* C24: for n raw segments the labeler returns the first min(n, 50) of
\* them in order, page, bbox and text unchanged, with pairwise distinct
\* ids; a segment with no label of its own index has risk low.
LabelerKeepsSegments ==
    labelRaw # Undef =>
        /\ Len(segments) = Min(Len(lineSegments), 50)
        /\ \A n \in DOMAIN segments :
              /\ segments[n].page = lineSegments[n].page
              /\ segments[n].bbox = lineSegments[n].bbox
              /\ segments[n].text = lineSegments[n].text
              /\ n - 1 \notin LabeledIndices[labelRaw] => segments[n].risk = "low"
              /\ \A m \in DOMAIN segments : segments[m].id = segments[n].id => m = n

\* C24 witness: 52 lines went to the labeler with a label for the first
\* one, and 50 came back, the first one with the label's risk
LabeledFiftyOfMore ==
    /\ labelRaw = GoodLabels
    /\ Len(lineSegments) = 52
    /\ Len(segments) = 50
    /\ segments[1].risk = "high"
    /\ segments[50].text = "X"

\* the topic categories in the order in which the engine enumerates them
TopicOrder ==
    <<"payment", "termination", "liability", "arbitration", "renewal",
      "intellectual", "confidentiality", "penalty", "insurance",
      "compliance", "data", "warranty">>

\* the title of the clause of a topic
TopicTitle(area) == clauseTemplates("general", [a \in DOMAIN Keywords |-> FALSE])[area].title

\* for every text an analyzer can be given, the topics it mentions, in the
\* order of the enumeration
MentionedTopics ==
    [t \in AnalyzedTexts |->
        LET Mentioned(area) == Mentions(t, Keywords[area])
        IN  SelectSeq(TopicOrder, Mentioned)]

\* the titles of the filler clauses
FillerTitles ==
    {docSpecificClauses[d][n].title :
        d \in DOMAIN docSpecificClauses, n \in 1..2}
    \cup {docSpecificClauses[d][3].title : d \in DOMAIN docSpecificClauses \ {"general"}}

\* C25: the clauses of the fallback engine are the introduction, then one
\* clause for every detected topic in the order of the enumeration, then
\* the filler clauses, if any.
EngineTopicOrder ==
    (Returned /\ producer = "heuristic") =>
        LET topics == MentionedTopics[builtFrom]
            titles == {TopicTitle(TopicOrder[n]) : n \in DOMAIN TopicOrder}
        IN  /\ Len(result.clauses) >= 1 + Len(topics)
            /\ result.clauses[1].title \notin titles \cup FillerTitles
            /\ \A n \in DOMAIN result.clauses :
                  IF n = 1 THEN result.clauses[n].page = 1
                  ELSE IF n <= 1 + Len(topics)
                  THEN result.clauses[n].title = TopicTitle(topics[n - 1])
                  ELSE result.clauses[n].title \in FillerTitles

\* C25 witness: the text mentions a renewal before a court, and the engine
\* returned the clause on disputes before the clause on renewal
TopicsOutOfTextOrder ==
    /\ Returned
    /\ producer = "heuristic"
    /\ builtFrom = TermsDoc.pages[1].text
    /\ Len(result.clauses) = 9
    /\ result.clauses[4].title = "Dispute Resolution and Legal Rights"
    /\ result.clauses[5].title = "Renewal and Continuation Terms"

\* C26: the topic clauses of the fallback engine have pairwise distinct
\* excerpt windows: the clause with index i takes the window that starts at
\* min((i + 1) * 200, len - 200), a valid offset of the text, and no two
\* topic clauses have the same window.
TopicWindowsDistinct ==
    (Returned /\ producer = "heuristic") =>
        LET topics   == MentionedTopics[builtFrom]
            len      == Len(builtFrom)
            Start(i) == Min((i + 1) * 200, len - 200)
        IN  \A i \in 0..(Len(topics) - 1) :
                /\ 0 <= Start(i) /\ Start(i) <= len
                /\ \A j \in 0..(Len(topics) - 1) :
                      j # i => /\ Start(j) # Start(i)
                               /\ result.clauses[j + 2].original
                                      # result.clauses[i + 2].original

\* the topics of the page analyzer: their keywords and the name the summary
\* gives them
PageTopics ==
    {[kws |-> {"payment", "pay", "fee", "cost", "price"}, name |-> "payment terms"],
     [kws |-> {"terminate", "cancel", "end", "expire"}, name |-> "termination procedures"],
     [kws |-> {"liability", "responsible", "damages", "loss"}, name |-> "liability provisions"],
     [kws |-> {"arbitration", "dispute", "court"}, name |-> "dispute resolution"],
     [kws |-> {"confidential", "non-disclosure", "secret"}, name |-> "confidentiality requirements"],
     [kws |-> {"intellectual", "copyright", "trademark"}, name |-> "intellectual property rights"]}

\* the end of the cautionary sentence of each risk tier
CautionEnd ==
    [high   |-> "as they may affect your financial exposure or legal options.",
     medium |-> "could affect your costs, responsibilities, or procedures under the agreement.",
     low    |-> "These terms are generally administrative or procedural in nature."]

\* C27: the summary of an analyzed page (50 characters or more) on which a
\* topic is detected names every detected topic and ends with the cautionary
\* sentence of the page's risk tier.
PageSummaryNamesTopics ==
    \A k \in DOMAIN pageAnalysis :
        LET page     == pageAnalysis[k]
            detected == {t \in PageTopics : Mentions(page.text, t.kws)}
        IN  (Len(Trim(page.text)) >= 50 /\ detected # {}) =>
                /\ \A t \in detected : Includes(page.summary, t.name)
                /\ EndsWith(page.summary, CautionEnd[page.riskLevel])

TopicPagesTwoToFour ==
    (Returned /\ producer = "heuristic") =>
        \A n \in 2..(1 + Len(MentionedTopics[builtFrom])) :
            result.clauses[n].page \in 2..4

\* C30: a run of the canvas effect that has been cancelled appends no
\* further page to the container and sets no further component state, and
\* the container holds only pages rendered by the latest run.
CancelledRunsAreSilent ==
    /\ [](\A i \in DOMAIN canvas.container :
              canvas.container[i].run = canvas.latest)
    /\ [][\A r \in Runs :
              canvas.runs[r].cancelled =>
                  /\ canvas'.runs[r].pageData = canvas.runs[r].pageData
                  /\ canvas'.runs[r].sets = canvas.runs[r].sets]_vars

=============================================================================
